---------------------------- MODULE Spec2Model ----------------------------
(***************************************************************************)
(* Fledgling: observation scoring, ranking of birds and hotspots, and the  *)
(* radius auto-expansion of the main screen.                               *)
(*                                                                         *)
(* Numbers.  JavaScript doubles are modelled in fixed point: scores are    *)
(* carried in thousandths of a point (floor division at each division of   *)
(* the source), timestamps are whole days, and a JavaScript number that    *)
(* may be NaN is a record [nan, val].                                      *)
(***************************************************************************)
EXTENDS Integers, Sequences, FiniteSets, Bags, TLC

VARIABLES
    birdsData,      \* bird-scoring.ts: the argument `birds` of calculateBirdLikelihood
    scoredBirds,    \* bird-scoring.ts: the value calculateBirdLikelihood returned
    scoringPc,      \* "input" before the call, "scored" after it, "idle" when unused
    viewMode,       \* MainScreen: 'birds' | 'hotspots'
    filteredBirds,  \* use-birds-store: the scored list setBirds stored
    sortBy,         \* use-filter-store: 'likelihood' | 'name' | 'date'
    sortDirection,  \* use-filter-store: 'asc' | 'desc'
    resultsLimit,   \* use-birds-store: number | null
    hotspots,       \* use-birds-store: the hotspots of the last search
    location,       \* use-birds-store: LocationState | null
    qualityFilter,  \* HotspotsScreen: the selected entry of QUALITY_LEVELS
    sortOption,     \* HotspotsScreen: the selected entry of SORT_OPTIONS
    hotspotsLimit,  \* use-birds-store: number | null
    filteredHotspots, \* HotspotsScreen: what applyFilters last stored
    searchRadius,   \* use-birds-store: miles
    hasAutoExpanded, \* MainScreen: useState(false)
    birdImages,     \* use-birds-store: the species that have images stored
    isLoading,      \* use-birds-store
    isLoadingImages, \* MainScreen: useState(false)
    isFullyLoaded,  \* MainScreen: useState(false)
    refreshing,     \* MainScreen: useState(false)
    error,          \* use-birds-store: TRUE for a message, FALSE for null
    calls,          \* the bag of loadBirds invocations that have not returned
    mounted,        \* the effects of the first render have run
    renderedDeps,   \* searchRadius and hasAutoExpanded of the last render whose effects ran
    birdImagesReplaced, \* the store holds a newer birdImages object than that render
    batching,       \* React batches the state updates made after an await
    lastChange,     \* history: what last changed a dependency of loadBirds
    expansions,     \* history: expansions since the last manual radius change
    expandedSearches, \* history: radius-10 searches the expansions set off since then
    imageAnswers,   \* history: answers of fetchBirdImages that held images so far
    card,           \* HotspotsScreen: the hotspot card rendered last, with its distance and tier
    isLoadingHotspots, \* use-birds-store
    hotspotCalls,   \* the loadHotspots invocations that await fetchHotspots
    hotspotStarted, \* history: how many loadHotspots invocations have started
    hotspotsStoredBy \* history: the invocation whose answer setHotspots stored last, 0 for none

scoringVars == <<birdsData, scoredBirds, scoringPc>>

rankVars == <<viewMode, filteredBirds, sortBy, sortDirection, resultsLimit,
              hotspots, location, qualityFilter, sortOption, hotspotsLimit,
              filteredHotspots>>

loadFlags == <<isLoading, isLoadingImages, isFullyLoaded, refreshing, error>>

historyVars == <<lastChange, expansions, expandedSearches, imageAnswers>>

radiusVars == <<searchRadius, hasAutoExpanded, birdImages, loadFlags, calls, mounted,
                renderedDeps, birdImagesReplaced, batching, historyVars>>

hsearchVars == <<isLoadingHotspots, hotspotCalls, hotspotStarted, hotspotsStoredBy>>

vars == <<birdsData, scoredBirds, scoringPc, viewMode, filteredBirds, sortBy,
          sortDirection, resultsLimit, hotspots, location, qualityFilter,
          sortOption, hotspotsLimit, filteredHotspots, radiusVars, card, hsearchVars>>

\* No hotspot search runs or has run
HotspotSearchIdle ==
    /\ isLoadingHotspots = FALSE
    /\ hotspotCalls = {}
    /\ hotspotStarted = 0
    /\ hotspotsStoredBy = 0

\* The main screen's search state when a behaviour makes no search
RadiusIdle ==
    /\ searchRadius = 5
    /\ hasAutoExpanded = FALSE
    /\ birdImages = {}
    /\ isLoading = FALSE
    /\ isLoadingImages = FALSE
    /\ isFullyLoaded = TRUE
    /\ refreshing = FALSE
    /\ error = FALSE
    /\ calls = EmptyBag
    /\ mounted = TRUE
    /\ renderedDeps = [searchRadius |-> 5, hasAutoExpanded |-> FALSE]
    /\ birdImagesReplaced = FALSE
    /\ batching = TRUE
    /\ lastChange = "none"
    /\ expansions = 0
    /\ expandedSearches = 0
    /\ imageAnswers = 0

-----------------------------------------------------------------------------
(* Generic helpers                                                          *)

Min(a, b) == IF a <= b THEN a ELSE b

Max(a, b) == IF a >= b THEN a ELSE b

Range(s) == {s[i] : i \in 1..Len(s)}

SeqsUpTo(S, n) == UNION {[1..k -> S] : k \in 0..n}

\* Array.prototype.filter: the elements that pass, in their original order.
RECURSIVE FilterSeq(_, _)
FilterSeq(s, keep) ==
    IF s = <<>> THEN <<>>
    ELSE IF Head(s) \in keep THEN <<Head(s)>> \o FilterSeq(Tail(s), keep)
    ELSE FilterSeq(Tail(s), keep)

\* One step of a stable insertion sort: x goes right after the last element
\* that the comparator does not put after it.
InsertSorted(sorted, x, Cmp(_, _)) ==
    LET fits == {j \in 1..Len(sorted) : Cmp(sorted[j], x) <= 0}
        pos  == IF fits = {} THEN 0 ELSE CHOOSE j \in fits : \A k \in fits : k <= j
    IN  SubSeq(sorted, 1, pos) \o <<x>> \o SubSeq(sorted, pos + 1, Len(sorted))

\* Array.prototype.sort(compareFn): a stable sort by the comparator.
SortWith(s, Cmp(_, _)) ==
    LET ins[k \in 0..Len(s)] ==
            IF k = 0 THEN <<>> ELSE InsertSorted(ins[k - 1], s[k], Cmp)
    IN  ins[Len(s)]

\* Array.prototype.slice(0, n)
Slice0(s, n) == SubSeq(s, 1, Min(n, Len(s)))

\* Sum of a sequence of integers (Array.prototype.reduce((a, b) => a + b, 0))
RECURSIVE SumSeq(_)
SumSeq(s) == IF s = <<>> THEN 0 ELSE Head(s) + SumSeq(Tail(s))

\* The decimal digits of a non-negative integer, most significant first
\* (Number.prototype.toString, as the default sort applies it).
RECURSIVE Digits(_)
Digits(n) == IF n < 10 THEN <<n>> ELSE Digits(n \div 10) \o <<n % 10>>

\* Code-unit order of two digit strings: -1, 0 or 1.
RECURSIVE LexCompare(_, _)
LexCompare(a, b) ==
    IF a = <<>> /\ b = <<>> THEN 0
    ELSE IF a = <<>> THEN 0 - 1
    ELSE IF b = <<>> THEN 1
    ELSE IF Head(a) < Head(b) THEN 0 - 1
    ELSE IF Head(a) > Head(b) THEN 1
    ELSE LexCompare(Tail(a), Tail(b))

\* Array.prototype.sort() without a comparator: by the elements' strings.
DefaultSortCompare(a, b) == LexCompare(Digits(a), Digits(b))

-----------------------------------------------------------------------------
(* JavaScript numbers that may be NaN                                       *)

Num(v) == [nan |-> FALSE, val |-> v]

NaNValue == [nan |-> TRUE, val |-> 0]

isNaN(x) == x.nan

-----------------------------------------------------------------------------
(* types/birds.ts: BirdObservation                                          *)

\* howMany: number | string, or absent in the API's response
HowManyNumber(n) == [type |-> "number", num |-> n, str |-> ""]

HowManyString(s) == [type |-> "string", num |-> 0, str |-> s]

HowManyMissing == [type |-> "undefined", num |-> 0, str |-> ""]

\* `now` of calculateBirdLikelihood, in days since the epoch
Now == 20000

\* How many days before `now` the records of the model were observed
DaysAgo == {0, 1, 2}

SpeciesCodes == {"amerob", "norcar", "bkcchi"}

\* comName is a function of the species in the API's data
ComNameOf(code) ==
    CASE code = "amerob" -> "American Robin"
      [] code = "norcar" -> "Northern Cardinal"
      [] OTHER -> "Black-capped Chickadee"

\* The howMany values of the model: a count, the letter X, no count
HowManyValues == {HowManyNumber(3), HowManyString("X"), HowManyMissing}

\* The records of the given species; the records without a count are the
\* ones flagged invalid
ObservationsOf(codes, days, counts) ==
    {[speciesCode |-> c, comName |-> ComNameOf(c), obsDt |-> Now - d,
      howMany |-> h, obsValid |-> (h.type # "undefined")] :
        c \in codes, d \in days, h \in counts}

-----------------------------------------------------------------------------
(* utils/bird-scoring.ts: calculateBirdLikelihood                           *)

\* countOf that counts no bird for a record without a count
countOfMissingAsZero(obs) ==
    IF obs.howMany.type = "number" THEN obs.howMany.num
    ELSE IF obs.howMany.type = "string" /\ obs.howMany.str = "X" THEN 25
    ELSE 0

\* countOf that does not know the letter X
countOfXAsOne(obs) ==
    IF obs.howMany.type = "number" THEN obs.howMany.num ELSE 1

\* lines 25-26 and 66-67: the count a record contributes to the volume
countOf(obs) ==
    IF obs.howMany.type = "number" THEN obs.howMany.num
    ELSE IF obs.howMany.type = "string" /\ obs.howMany.str = "X" THEN 25
    ELSE 1

\* line 11: new Map(); keys in insertion order, get[c] = <<>> for absent keys
emptySpeciesMap == [keys |-> <<>>, get |-> [c \in SpeciesCodes |-> <<>>]]

\* speciesMapSet that forgets the records already stored
speciesMapSetReplace(map, bird) ==
    LET code == bird.speciesCode
    IN  [keys |-> IF code \in Range(map.keys) THEN map.keys ELSE Append(map.keys, code),
         get  |-> [map.get EXCEPT ![code] = <<bird>>]]

\* lines 13-14: existing = get(code) || []; set(code, [...existing, bird])
speciesMapSet(map, bird) ==
    LET code == bird.speciesCode
        existing == map.get[code]
    IN  [keys |-> IF code \in Range(map.keys) THEN map.keys ELSE Append(map.keys, code),
         get  |-> [map.get EXCEPT ![code] = Append(existing, bird)]]

\* lines 11-15: birds.forEach(...)
speciesMapOf(birds) ==
    LET m[k \in 0..Len(birds)] ==
            IF k = 0 THEN emptySpeciesMap ELSE speciesMapSet(m[k - 1], birds[k])
    IN  m[Len(birds)]

totalVolumeOf(observations) ==
    SumSeq([i \in 1..Len(observations) |-> countOf(observations[i])])

\* lines 18-31
maxSightings(speciesMap) ==
    LET m[k \in 0..Len(speciesMap.keys)] ==
            IF k = 0 THEN 0
            ELSE Max(m[k - 1], Len(speciesMap.get[speciesMap.keys[k]]))
    IN  m[Len(speciesMap.keys)]

\* lines 18-31
maxVolume(speciesMap) ==
    LET m[k \in 0..Len(speciesMap.keys)] ==
            IF k = 0 THEN 0
            ELSE Max(m[k - 1], totalVolumeOf(speciesMap.get[speciesMap.keys[k]]))
    IN  m[Len(speciesMap.keys)]

\* frequencyScore that rewards the species seen least
frequencyScoreInverted(observations, maxS) ==
    ((maxS - Len(observations)) * 50000) \div maxS

\* line 39, in thousandths of a point; maxS > 0 whenever a species exists
frequencyScore(observations, maxS) == (Len(observations) * 50000) \div maxS

\* line 46: Math.exp(-0.1 * daysAgo) in thousandths, for whole days; from
\* 70 days on the value is below a thousandth (exp(-7) = 0.00091)
RECURSIVE ExpDecay(_)
ExpDecay(daysAgo) ==
    IF daysAgo = 0 THEN 1000
    ELSE IF daysAgo >= 70 THEN 0
    ELSE IF daysAgo > 0 THEN (ExpDecay(daysAgo - 1) * 904837) \div 1000000
    ELSE (ExpDecay(daysAgo + 1) * 1105171) \div 1000000

\* line 55: Math.pow(0.8, index) in thousandths
RECURSIVE PowWeight(_)
PowWeight(index) == IF index = 0 THEN 1000 ELSE (PowWeight(index - 1) * 8) \div 10

CompareDescending(a, b) == b - a

\* lines 43-61, in thousandths of a point
recencyScore(observations) ==
    LET raw == [i \in 1..Len(observations) |-> ExpDecay(Now - observations[i].obsDt)]
        recencyScores == SortWith(raw, CompareDescending)
        weightedRecencySum ==
            SumSeq([i \in 1..Len(recencyScores) |-> recencyScores[i] * PowWeight(i - 1)])
        weightSum == SumSeq([i \in 1..Len(recencyScores) |-> PowWeight(i - 1)])
    IN  (weightedRecencySum * 30) \div weightSum

\* volumeScore without Math.min(1, ...)
volumeScoreUncapped(observations, maxV) ==
    LET totalVolume == totalVolumeOf(observations)
    IN  IF maxV = 0 /\ totalVolume = 0 THEN NaNValue
        ELSE IF maxV = 0 THEN Num(20000)
        ELSE Num(((totalVolume * 10000) \div (maxV * 7)) * 20)

\* lines 65-70, in thousandths of a point; x / 0 is NaN for x = 0 and
\* Infinity for x > 0, and Math.min(1, NaN) is NaN
volumeScore(observations, maxV) ==
    LET totalVolume == totalVolumeOf(observations)
    IN  IF maxV = 0 /\ totalVolume = 0 THEN NaNValue
        ELSE IF maxV = 0 THEN Num(20000)
        ELSE Num(Min(1000, (totalVolume * 10000) \div (maxV * 7)) * 20)

\* line 74: new Date(obsDt).getTime() of a timestamp in whole days, in units
\* of 100,000 ms (a day has 86,400,000 ms); the five zeros left out follow
\* every number alike and do not change the order of the strings
getTime(obsDt) == obsDt * 864

\* consistencyScore without Math.min(10, ...)
consistencyScoreUncapped(observations) ==
    LET raw == [i \in 1..Len(observations) |-> getTime(observations[i].obsDt)]
        dates == SortWith(raw, DefaultSortCompare)
        dateRangeInDays == (dates[Len(dates)] - dates[1]) \div 864
    IN  IF Len(dates) > 1 /\ dateRangeInDays > 0
        THEN (Len(observations) * 5000) \div dateRangeInDays
        ELSE 0

\* lines 74-85, in thousandths of a point
consistencyScore(observations) ==
    LET raw == [i \in 1..Len(observations) |-> getTime(observations[i].obsDt)]
        dates == SortWith(raw, DefaultSortCompare)
        dateRangeInDays == (dates[Len(dates)] - dates[1]) \div 864
    IN  IF Len(dates) > 1 /\ dateRangeInDays > 0
        THEN Min(10000, (Len(observations) * 5000) \div dateRangeInDays)
        ELSE 0

\* line 88: Math.round of a value in thousandths (half rounds up)
MathRound(thousandths) == (thousandths + 500) \div 1000

\* likelihoodOf without the cap of line 91
likelihoodOfUncapped(observations, maxS, maxV) ==
    LET v == volumeScore(observations, maxV)
    IN  IF isNaN(v) THEN NaNValue
        ELSE Num(MathRound(frequencyScore(observations, maxS)
                           + recencyScore(observations)
                           + v.val
                           + consistencyScore(observations)))

\* lines 88-91
likelihoodOf(observations, maxS, maxV) ==
    LET v == volumeScore(observations, maxV)
    IN  IF isNaN(v) THEN NaNValue
        ELSE Num(Min(99, MathRound(frequencyScore(observations, maxS)
                                   + recencyScore(observations)
                                   + v.val
                                   + consistencyScore(observations))))

\* lines 93-96: { ...firstObs, likelihood }
ScoredBird(firstObs, likelihood) ==
    [speciesCode |-> firstObs.speciesCode, comName |-> firstObs.comName,
     obsDt |-> firstObs.obsDt, howMany |-> firstObs.howMany,
     obsValid |-> firstObs.obsValid, likelihood |-> likelihood]

\* line 100: (a, b) => b.likelihood - a.likelihood; NaN compares as 0
CompareLikelihoodDesc(a, b) ==
    IF isNaN(a.likelihood) \/ isNaN(b.likelihood) THEN 0
    ELSE b.likelihood.val - a.likelihood.val

\* calculateBirdLikelihood that answers a batch without records with an
\* entry of likelihood 0 instead of no entry
calculateBirdLikelihoodNeverEmpty(birds) ==
    LET speciesMap == speciesMapOf(birds)
        maxS  == maxSightings(speciesMap)
        maxV  == maxVolume(speciesMap)
        scored == [k \in 1..Len(speciesMap.keys) |->
                    LET observations == speciesMap.get[speciesMap.keys[k]]
                    IN  ScoredBird(observations[1],
                                   likelihoodOf(observations, maxS, maxV))]
        unknown == [speciesCode |-> "", comName |-> "", obsDt |-> Now,
                    howMany |-> HowManyMissing, obsValid |-> FALSE]
    IN  IF birds = <<>> THEN <<ScoredBird(unknown, Num(0))>>
        ELSE SortWith(scored, CompareLikelihoodDesc)

\* lines 7-101
calculateBirdLikelihood(birds) ==
    LET speciesMap == speciesMapOf(birds)
        maxS  == maxSightings(speciesMap)
        maxV  == maxVolume(speciesMap)
        scored == [k \in 1..Len(speciesMap.keys) |->
                    LET observations == speciesMap.get[speciesMap.keys[k]]
                    IN  ScoredBird(observations[1],
                                   likelihoodOf(observations, maxS, maxV))]
    IN  SortWith(scored, CompareLikelihoodDesc)

-----------------------------------------------------------------------------
(* Values that may be null: a limit (number | null), a location, a distance *)

LimitOf(n) == [null |-> FALSE, n |-> n]

NullLimit == [null |-> TRUE, n |-> 0]

-----------------------------------------------------------------------------
(* String.prototype.localeCompare                                           *)

\* The names of the model and the letters they start with (a = 1 .. z = 26);
\* the collation orders names by their letters, whatever the case
CollationKey(name) ==
    CASE name = "American Robin"         -> <<1, 13>>
      [] name = "Black-capped Chickadee" -> <<2, 12>>
      [] name = "Northern Cardinal"      -> <<14, 15>>
      [] name = "Alder Marsh"            -> <<1, 12>>
      [] name = "Birch Pond"             -> <<2, 9>>
      [] name = "Cedar Point"            -> <<3, 5>>
      [] name = "Dune Trail"             -> <<4, 21>>
      [] name = "Eagle Bluff"            -> <<5, 1>>
      [] name = "Fern Hollow"            -> <<6, 5>>
      [] OTHER                           -> <<>>

localeCompare(a, b) == LexCompare(CollationKey(a), CollationKey(b))

-----------------------------------------------------------------------------
(* MainScreen (src/unnamed/part_003): displayedBirds                        *)

SortByOptions == {"likelihood", "name", "date"}

SortDirections == {"asc", "desc"}

\* birdComparison that treats every two likelihoods as equal
birdComparisonLikelihoodBlind(a, b, by) ==
    CASE by = "name" -> localeCompare(a.comName, b.comName)
      [] by = "date" -> a.obsDt - b.obsDt
      [] OTHER -> 0

\* lines 326-337: the comparison before the direction is applied
birdComparison(a, b, by) ==
    CASE by = "likelihood" ->
            (IF isNaN(a.likelihood) THEN 0 ELSE a.likelihood.val)
            - (IF isNaN(b.likelihood) THEN 0 ELSE b.likelihood.val)
      [] by = "name" -> localeCompare(a.comName, b.comName)
      [] by = "date" -> a.obsDt - b.obsDt
      [] OTHER -> 0

\* birdCompare that ignores the direction
birdCompareAscendingOnly(a, b, by, direction) == birdComparison(a, b, by)

\* line 339
birdCompare(a, b, by, direction) ==
    IF direction = "asc" THEN birdComparison(a, b, by)
    ELSE 0 - birdComparison(a, b, by)

\* line 325: [...filteredBirds].sort(...)
sortedBirds(birds, by, direction) ==
    SortWith(birds, LAMBDA a, b : birdCompare(a, b, by, direction))

\* limitBirds that keeps one entry too many
limitBirdsOffByOne(sorted, limit) ==
    IF ~limit.null THEN Slice0(sorted, limit.n + 1) ELSE sorted

\* lines 343-347
limitBirds(sorted, limit) ==
    IF ~limit.null THEN Slice0(sorted, limit.n) ELSE sorted

\* lines 321-348
displayedBirdsOf(birds, by, direction, limit) ==
    IF Len(birds) = 0 THEN <<>>
    ELSE limitBirds(sortedBirds(birds, by, direction), limit)

displayedBirds == displayedBirdsOf(filteredBirds, sortBy, sortDirection, resultsLimit)

-----------------------------------------------------------------------------
(* HotspotsScreen (src/unnamed/part_001) and MainScreen (part_003)          *)

\* QUALITY_LEVELS whose Good level starts at the classifier's breakpoint 25
QUALITY_LEVELS_GoodFrom25 ==
    <<[label |-> "All", minSpecies |-> 0],
      [label |-> "Moderate", minSpecies |-> 25],
      [label |-> "Good", minSpecies |-> 25],
      [label |-> "Very Good", minSpecies |-> 100],
      [label |-> "Excellent", minSpecies |-> 200]>>

QUALITY_LEVELS ==
    <<[label |-> "All", minSpecies |-> 0],
      [label |-> "Moderate", minSpecies |-> 25],
      [label |-> "Good", minSpecies |-> 50],
      [label |-> "Very Good", minSpecies |-> 100],
      [label |-> "Excellent", minSpecies |-> 200]>>

SORT_OPTIONS ==
    <<[value |-> "quality", direction |-> "desc"],
      [value |-> "quality", direction |-> "asc"],
      [value |-> "distance", direction |-> "asc"],
      [value |-> "distance", direction |-> "desc"],
      [value |-> "name", direction |-> "asc"],
      [value |-> "name", direction |-> "desc"]>>

qualityHighestSort == SORT_OPTIONS[1]

\* numSpeciesAllTime?: number
SpeciesCount(n) == [present |-> TRUE, n |-> n]

NoSpeciesCount == [present |-> FALSE, n |-> 0]

\* hotspot.numSpeciesAllTime || 0
countOrZero(hotspot) ==
    IF hotspot.numSpeciesAllTime.present THEN hotspot.numSpeciesAllTime.n ELSE 0

\* Coordinates are in ten-thousandths of a degree.  Every point of the model
\* lies on the meridian of the search origin or has a zero coordinate.
Origin == [null |-> FALSE, latitude |-> 400000, longitude |-> 0 - 750000]

NullLocation == [null |-> TRUE, latitude |-> 0, longitude |-> 0]

NullDistance == [null |-> TRUE, tenths |-> 0]

\* Number.prototype.toFixed(1) of a distance in thousandths of a mile: the
\* string of the nearest tenth, carried as a number of tenths
toFixed1(thousandths) == [null |-> FALSE, tenths |-> (thousandths + 50) \div 100]

\* 69.094 miles a degree for a gap in ten-thousandths of a degree, in
\* thousandths of a mile
milesOfLatitude(dLat) == (dLat \div 10000) * 69094 + ((dLat % 10000) * 69094) \div 10000

\* calculateDistance that takes a point for missing only at (0, 0)
calculateDistanceBothZero(lat1, lon1, lat2, lon2) ==
    IF (lat1 = 0 /\ lon1 = 0) \/ (lat2 = 0 /\ lon2 = 0) THEN NullDistance
    ELSE LET dLat == IF lat2 >= lat1 THEN lat2 - lat1 ELSE lat1 - lat2
             distance == milesOfLatitude(dLat)
         IN  toFixed1(distance)

\* part_001 lines 217-231.  On one meridian the haversine formula gives
\* R * |dLat| in radians: 3958.8 * pi / 180 = 69.094 miles a degree.
calculateDistance(lat1, lon1, lat2, lon2) ==
    IF lat1 = 0 \/ lon1 = 0 \/ lat2 = 0 \/ lon2 = 0 THEN NullDistance
    ELSE LET dLat == IF lat2 >= lat1 THEN lat2 - lat1 ELSE lat1 - lat2
             distance == milesOfLatitude(dLat)
         IN  toFixed1(distance)

\* distanceValue that takes an unknown distance for no distance at all
distanceValueZero(dist) == IF dist.null THEN 0 ELSE dist.tenths

\* part_001 lines 137-138: aDist ? parseFloat(aDist) : 9999, in tenths
distanceValue(dist) == IF dist.null THEN 99990 ELSE dist.tenths

\* getHotspotQuality whose breakpoints belong to the higher tier
getHotspotQualityInclusive(speciesCount) ==
    IF ~speciesCount.present \/ speciesCount.n = 0 THEN [label |-> "none", rank |-> 0]
    ELSE IF speciesCount.n >= 200 THEN [label |-> "Exceptional", rank |-> 5]
    ELSE IF speciesCount.n >= 100 THEN [label |-> "Excellent", rank |-> 4]
    ELSE IF speciesCount.n >= 50 THEN [label |-> "Very Good", rank |-> 3]
    ELSE IF speciesCount.n >= 25 THEN [label |-> "Good", rank |-> 2]
    ELSE [label |-> "Moderate", rank |-> 1]

\* part_001 lines 234-242; the rank is the tier's position, 0 for no tier
getHotspotQuality(speciesCount) ==
    IF ~speciesCount.present \/ speciesCount.n = 0 THEN [label |-> "none", rank |-> 0]
    ELSE IF speciesCount.n > 200 THEN [label |-> "Exceptional", rank |-> 5]
    ELSE IF speciesCount.n > 100 THEN [label |-> "Excellent", rank |-> 4]
    ELSE IF speciesCount.n > 50 THEN [label |-> "Very Good", rank |-> 3]
    ELSE IF speciesCount.n > 25 THEN [label |-> "Good", rank |-> 2]
    ELSE [label |-> "Moderate", rank |-> 1]

\* passesQualityFilter with a strict comparison
passesQualityFilterStrict(hotspot, filter) == countOrZero(hotspot) > filter.minSpecies

\* part_001 lines 116-119
passesQualityFilter(hotspot, filter) == countOrZero(hotspot) >= filter.minSpecies

\* hotspotCompare whose quality sort ignores the direction
hotspotCompareQualityDescOnly(a, b, option, origin) ==
    CASE option.value = "quality" -> countOrZero(b) - countOrZero(a)
      [] option.value = "distance" ->
            LET aValue == distanceValue(calculateDistance(origin.latitude, origin.longitude,
                                                          a.latitude, a.longitude))
                bValue == distanceValue(calculateDistance(origin.latitude, origin.longitude,
                                                          b.latitude, b.longitude))
            IN  IF option.direction = "asc" THEN aValue - bValue ELSE bValue - aValue
      [] option.value = "name" ->
            IF option.direction = "asc" THEN localeCompare(a.locName, b.locName)
            ELSE localeCompare(b.locName, a.locName)
      [] OTHER -> 0

\* part_001 lines 122-153
hotspotCompare(a, b, option, origin) ==
    CASE option.value = "quality" ->
            IF option.direction = "desc" THEN countOrZero(b) - countOrZero(a)
            ELSE countOrZero(a) - countOrZero(b)
      [] option.value = "distance" ->
            LET aValue == distanceValue(calculateDistance(origin.latitude, origin.longitude,
                                                          a.latitude, a.longitude))
                bValue == distanceValue(calculateDistance(origin.latitude, origin.longitude,
                                                          b.latitude, b.longitude))
            IN  IF option.direction = "asc" THEN aValue - bValue ELSE bValue - aValue
      [] option.value = "name" ->
            IF option.direction = "asc" THEN localeCompare(a.locName, b.locName)
            ELSE localeCompare(b.locName, a.locName)
      [] OTHER -> 0

\* part_001 lines 116-119: [...hotspots].filter(...)
qualityFiltered(list, filter) ==
    FilterSeq(list, {h \in Range(list) : passesQualityFilter(h, filter)})

\* part_001 lines 122-153: filtered.sort(...)
sortedHotspots(list, option, origin) ==
    SortWith(list, LAMBDA a, b : hotspotCompare(a, b, option, origin))

\* part_001 lines 156-158
limitHotspots(sorted, limit) ==
    IF ~limit.null THEN Slice0(sorted, limit.n) ELSE sorted

\* part_001 lines 109-161: the value applyFilters passes to setFilteredHotspots
applyFilters(list, origin, filter, option, limit) ==
    IF Len(list) = 0 \/ origin.null THEN <<>>
    ELSE limitHotspots(sortedHotspots(qualityFiltered(list, filter), option, origin),
                       limit)

-----------------------------------------------------------------------------
(* HotspotsScreen (src/unnamed/part_001): the card of one hotspot           *)

NoHotspot ==
    [locId |-> "", locName |-> "", latitude |-> 0, longitude |-> 0,
     numSpeciesAllTime |-> NoSpeciesCount]

\* No hotspot card has been rendered
NoCard ==
    [rendered |-> FALSE, hotspot |-> NoHotspot, distance |-> NullDistance,
     quality |-> getHotspotQuality(NoSpeciesCount)]

CardIdle == card = NoCard

\* part_001 lines 387-396: the body of filteredHotspots.map(...) for one entry
renderHotspotItem(i) ==
    /\ viewMode = "hotspots"
    /\ i \in 1..Len(filteredHotspots)
    /\ LET hotspot == filteredHotspots[i]
           distance == IF ~location.null
                       THEN calculateDistance(location.latitude, location.longitude,
                                              hotspot.latitude, hotspot.longitude)
                       ELSE NullDistance
           quality == getHotspotQuality(hotspot.numSpeciesAllTime)
       IN  card' = [rendered |-> TRUE, hotspot |-> hotspot, distance |-> distance,
                    quality |-> quality]
    /\ UNCHANGED <<scoringVars, rankVars, radiusVars, hsearchVars>>

-----------------------------------------------------------------------------
(* The scorer applied to every batch of at most MaxBatch records            *)

MaxBatch == 3

\* The species of the scoring runs
ScoreSpecies == {"amerob", "norcar"}

ScoreObservations == ObservationsOf(ScoreSpecies, DaysAgo, HowManyValues)

\* The ranking state of a screen that has not searched yet
RankIdle ==
    /\ viewMode = "birds"
    /\ filteredBirds = <<>>
    /\ sortBy = "likelihood"
    /\ sortDirection = "desc"
    /\ resultsLimit = LimitOf(25)
    /\ hotspots = <<>>
    /\ location = NullLocation
    /\ qualityFilter = QUALITY_LEVELS[1]
    /\ sortOption = qualityHighestSort
    /\ hotspotsLimit = LimitOf(10)
    /\ filteredHotspots = <<>>

ScoreInit ==
    /\ birdsData \in SeqsUpTo(ScoreObservations, MaxBatch)
    /\ scoredBirds = <<>>
    /\ scoringPc = "input"
    /\ RankIdle
    /\ RadiusIdle
    /\ CardIdle
    /\ HotspotSearchIdle

\* Score with the batch sorted in place, latest sighting first, before the
\* species are grouped
ScoreSortingBatch ==
    /\ scoringPc = "input"
    /\ birdsData' = SortWith(birdsData, LAMBDA a, b : b.obsDt - a.obsDt)
    /\ scoredBirds' = calculateBirdLikelihood(birdsData')
    /\ scoringPc' = "scored"
    /\ UNCHANGED <<rankVars, radiusVars, card, hsearchVars>>

Score ==
    /\ scoringPc = "input"
    /\ scoredBirds' = calculateBirdLikelihood(birdsData)
    /\ scoringPc' = "scored"
    /\ UNCHANGED <<birdsData, rankVars, radiusVars, card, hsearchVars>>

ScoreNext == Score

SpecScore == ScoreInit /\ [][ScoreNext]_vars

\* The records of birds that carry the given species code, in input order
RecordsOfSpecies(birds, code) ==
    FilterSeq(birds, {b \in Range(birds) : b.speciesCode = code})

\* The index of the first record of the species in the batch
FirstIndexOf(birds, code) ==
    CHOOSE i \in 1..Len(birds) :
        /\ birds[i].speciesCode = code
        /\ \A j \in 1..(i - 1) : birds[j].speciesCode # code

\* C1: for every non-empty batch, every entry calculateBirdLikelihood returns
\* has a likelihood that is a number (not NaN) and an integer from 0 to 99.
C1_LikelihoodRange ==
    (scoringPc = "scored" /\ birdsData # <<>>) =>
        /\ scoredBirds # <<>>
        /\ \A i \in 1..Len(scoredBirds) :
              /\ ~isNaN(scoredBirds[i].likelihood)
              /\ scoredBirds[i].likelihood.val \in 0..99

\* A batch whose best species reaches the cap of 99 while another stays below
C1_Witness ==
    /\ scoringPc = "scored"
    /\ Len(scoredBirds) = 2
    /\ scoredBirds[1].likelihood.val = 99
    /\ scoredBirds[2].likelihood.val < 99

\* C5: the species map holds, for each species, exactly the records of that
\* species in input order (no record dropped, invalid ones included); the
\* output has one entry per distinct species of the input, and the entry's
\* fields other than the likelihood are those of the species' first record.
C5_GroupingAndRepresentative ==
    scoringPc = "scored" =>
        LET speciesMap == speciesMapOf(birdsData)
            present == {birdsData[i].speciesCode : i \in 1..Len(birdsData)}
        IN  /\ Range(speciesMap.keys) = present
            /\ \A c \in SpeciesCodes :
                  speciesMap.get[c] = RecordsOfSpecies(birdsData, c)
            /\ Len(scoredBirds) = Cardinality(present)
            /\ {scoredBirds[i].speciesCode : i \in 1..Len(scoredBirds)} = present
            /\ \A i \in 1..Len(scoredBirds) :
                  LET first == birdsData[FirstIndexOf(birdsData, scoredBirds[i].speciesCode)]
                  IN  /\ scoredBirds[i].comName = first.comName
                      /\ scoredBirds[i].obsDt = first.obsDt
                      /\ scoredBirds[i].howMany = first.howMany
                      /\ scoredBirds[i].obsValid = first.obsValid

\* Two species interleaved in the batch, the first species seen again with
\* different data, and an invalid record among them
C5_Witness ==
    /\ scoringPc = "scored"
    /\ Len(birdsData) = 3
    /\ birdsData[1].speciesCode # birdsData[2].speciesCode
    /\ birdsData[3].speciesCode = birdsData[1].speciesCode
    /\ birdsData[3].obsDt # birdsData[1].obsDt
    /\ birdsData[3].howMany # birdsData[1].howMany
    /\ \E i \in 1..3 : ~birdsData[i].obsValid
    /\ Len(scoredBirds) = 2

-----------------------------------------------------------------------------
(* The ranking of a search result: the bird list of MainScreen and the      *)
(* hotspot list of HotspotsScreen under every choice of the settings        *)

\* The longest batch of a bird search and the longest hotspot list
MaxRankBatch == 3

MaxHotspots == 3

\* The largest of the small limits that cut the short lists of the model
MaxSmallLimit == 2

\* FilterSettings RESULTS_LIMIT_OPTIONS (10, 25, 50, null); the limits
\* 1..MaxSmallLimit stand for a limit below the length of the list
ResultsLimitOptions == {LimitOf(n) : n \in 1..MaxSmallLimit} \cup {LimitOf(25), NullLimit}

\* HOTSPOTS_LIMIT_OPTIONS (5, 10, 25, null), likewise
HotspotsLimitOptions == {LimitOf(n) : n \in 1..MaxSmallLimit} \cup {LimitOf(10), NullLimit}

RankObservations ==
    ObservationsOf(SpeciesCodes, {0, 2}, {HowManyNumber(3), HowManyString("X")})

\* A search result that holds three species
FixedBirdsData ==
    LET obs(c, d, h) == [speciesCode |-> c, comName |-> ComNameOf(c), obsDt |-> Now - d,
                         howMany |-> h, obsValid |-> TRUE]
    IN  <<obs("norcar", 0, HowManyString("X")), obs("amerob", 2, HowManyNumber(3)),
          obs("bkcchi", 1, HowManyNumber(3)), obs("amerob", 0, HowManyNumber(3))>>

Hotspot(id, name, dLat, lon, count) ==
    [locId |-> id, locName |-> name, latitude |-> Origin.latitude + dLat,
     longitude |-> lon, numSpeciesAllTime |-> count]

\* The hotspots a search may return: every tier and both sides of the
\* breakpoints, a hotspot without a count, one with a zero longitude, and
\* two whose distances differ by less than a tenth of a mile
HotspotPool ==
    {Hotspot("L1", "Eagle Bluff", 100, Origin.longitude, NoSpeciesCount),
     Hotspot("L2", "Dune Trail", 250, 0, SpeciesCount(25)),
     Hotspot("L3", "Cedar Point", 105, Origin.longitude, SpeciesCount(26)),
     Hotspot("L4", "Birch Pond", 0 - 300, Origin.longitude, SpeciesCount(200)),
     Hotspot("L5", "Alder Marsh", 500, Origin.longitude, SpeciesCount(201)),
     Hotspot("L6", "Fern Hollow", 0, Origin.longitude, SpeciesCount(60))}

\* Lists of distinct hotspots
HotspotLists ==
    {l \in SeqsUpTo(HotspotPool, MaxHotspots) :
        \A i, j \in 1..Len(l) : i # j => l[i] # l[j]}

ScoringIdle ==
    /\ birdsData = <<>>
    /\ scoredBirds = <<>>
    /\ scoringPc = "idle"

\* A bird search has returned: any batch, scored and stored by setBirds
RankInitBirds ==
    /\ viewMode = "birds"
    /\ \E batch \in SeqsUpTo(RankObservations, MaxRankBatch) :
          filteredBirds = calculateBirdLikelihood(batch)
    /\ sortBy = "likelihood"
    /\ sortDirection = "desc"
    /\ resultsLimit = LimitOf(25)
    /\ hotspots = <<>>
    /\ location = Origin
    /\ qualityFilter = QUALITY_LEVELS[1]
    /\ sortOption = qualityHighestSort
    /\ hotspotsLimit = LimitOf(10)
    /\ filteredHotspots = <<>>

\* A hotspot search has returned as well; the limit of the bird list is the
\* persisted one
RankInitHotspots ==
    /\ viewMode = "hotspots"
    /\ filteredBirds = calculateBirdLikelihood(FixedBirdsData)
    /\ sortBy = "likelihood"
    /\ sortDirection = "desc"
    /\ resultsLimit \in {LimitOf(1), LimitOf(25)}
    /\ hotspots \in HotspotLists
    /\ location = Origin
    /\ qualityFilter = QUALITY_LEVELS[1]
    /\ sortOption = qualityHighestSort
    /\ hotspotsLimit = LimitOf(10)
    /\ filteredHotspots =
          applyFilters(hotspots, location, qualityFilter, sortOption, hotspotsLimit)

RankInit ==
    ScoringIdle /\ RadiusIdle /\ CardIdle /\ HotspotSearchIdle /\ (RankInitBirds \/ RankInitHotspots)

birdSettings == <<sortBy, sortDirection, resultsLimit>>

hotspotSettings == <<qualityFilter, sortOption, hotspotsLimit, filteredHotspots>>

rankInputs == <<viewMode, filteredBirds, hotspots, location>>

\* FilterSettings (src/unnamed/part_004) lines 54-60
handleSortOptionSelect(option) ==
    /\ viewMode = "birds"
    /\ sortBy' = option
    /\ UNCHANGED <<sortDirection, resultsLimit, hotspotSettings, rankInputs, scoringVars, card, hsearchVars, radiusVars>>

\* FilterSettings lines 62-68
toggleSortDirection ==
    /\ viewMode = "birds"
    /\ sortDirection' = (IF sortDirection = "asc" THEN "desc" ELSE "asc")
    /\ UNCHANGED <<sortBy, resultsLimit, hotspotSettings, rankInputs, scoringVars, card, hsearchVars, radiusVars>>

\* FilterSettings lines 70-76
handleResultsLimitSelect(limit) ==
    /\ viewMode = "birds"
    /\ resultsLimit' = limit
    /\ UNCHANGED <<sortBy, sortDirection, hotspotSettings, rankInputs, scoringVars, card, hsearchVars, radiusVars>>

\* FilterSettings lines 78-85 and use-filter-store resetFilters
handleReset ==
    /\ viewMode = "birds"
    /\ sortBy' = "likelihood"
    /\ sortDirection' = "desc"
    /\ resultsLimit' = LimitOf(25)
    /\ UNCHANGED <<hotspotSettings, rankInputs, scoringVars, card, hsearchVars, radiusVars>>

\* HotspotsScreen line 756, then the effect of lines 88-90
selectQualityFilter(level) ==
    /\ viewMode = "hotspots"
    /\ qualityFilter' = level
    /\ filteredHotspots' = applyFilters(hotspots, location, level, sortOption, hotspotsLimit)
    /\ UNCHANGED <<sortOption, hotspotsLimit, birdSettings, rankInputs, scoringVars, card, hsearchVars, radiusVars>>

\* HotspotsScreen line 672, then the effect of lines 88-90
selectSortOption(option) ==
    /\ viewMode = "hotspots"
    /\ sortOption' = option
    /\ filteredHotspots' = applyFilters(hotspots, location, qualityFilter, option, hotspotsLimit)
    /\ UNCHANGED <<qualityFilter, hotspotsLimit, birdSettings, rankInputs, scoringVars, card, hsearchVars, radiusVars>>

\* selectHotspotsLimit that cuts the list on screen instead of running
\* applyFilters again
selectHotspotsLimitPatching(limit) ==
    /\ viewMode = "hotspots"
    /\ hotspotsLimit' = limit
    /\ filteredHotspots' = limitHotspots(filteredHotspots, limit)
    /\ UNCHANGED <<qualityFilter, sortOption, birdSettings, rankInputs, scoringVars, card, hsearchVars, radiusVars>>

\* HotspotsScreen line 714, then the effect of lines 88-90
selectHotspotsLimit(limit) ==
    /\ viewMode = "hotspots"
    /\ hotspotsLimit' = limit
    /\ filteredHotspots' = applyFilters(hotspots, location, qualityFilter, sortOption, limit)
    /\ UNCHANGED <<qualityFilter, sortOption, birdSettings, rankInputs, scoringVars, card, hsearchVars, radiusVars>>

\* HotspotsScreen lines 296-300, then the effect of lines 88-90
resetFilters ==
    /\ viewMode = "hotspots"
    /\ qualityFilter' = QUALITY_LEVELS[1]
    /\ sortOption' = qualityHighestSort
    /\ hotspotsLimit' = LimitOf(10)
    /\ filteredHotspots' = applyFilters(hotspots, location, QUALITY_LEVELS[1],
                                        qualityHighestSort, LimitOf(10))
    /\ UNCHANGED <<birdSettings, rankInputs, scoringVars, card, hsearchVars, radiusVars>>

RankNext ==
    \/ \E option \in SortByOptions : handleSortOptionSelect(option)
    \/ toggleSortDirection
    \/ \E limit \in ResultsLimitOptions : handleResultsLimitSelect(limit)
    \/ handleReset
    \/ \E level \in Range(QUALITY_LEVELS) : selectQualityFilter(level)
    \/ \E option \in Range(SORT_OPTIONS) : selectSortOption(option)
    \/ \E limit \in HotspotsLimitOptions : selectHotspotsLimit(limit)
    \/ resetFilters

SpecRank == RankInit /\ [][RankNext]_vars

\* The sequence in the opposite order
Reverse(s) == [i \in 1..Len(s) |-> s[Len(s) + 1 - i]]

\* The two sequences hold the same elements the same number of times
IsPermutation(s, t) ==
    /\ Len(s) = Len(t)
    /\ \A x \in Range(s) \cup Range(t) :
          Cardinality({i \in 1..Len(s) : s[i] = x})
              = Cardinality({i \in 1..Len(t) : t[i] = x})

\* s is the first Min(n, Len(full)) entries of full, in the same order
IsPrefixOfLength(s, full, n) ==
    /\ Len(s) = Min(n, Len(full))
    /\ \A i \in 1..Len(s) : s[i] = full[i]

\* The hotspot list after the filter and the sort, before the limit
sortedFilteredHotspots ==
    sortedHotspots(qualityFiltered(hotspots, qualityFilter), sortOption, location)

\* C6: the displayed bird list and the stored hotspot list are the first
\* min(N, len) entries of the sorted list, in its order, under a limit N, and
\* the whole sorted list under no limit.
C6_LimitTruncates ==
    /\ LET sorted == sortedBirds(filteredBirds, sortBy, sortDirection)
       IN  IF resultsLimit.null THEN displayedBirds = sorted
           ELSE IsPrefixOfLength(displayedBirds, sorted, resultsLimit.n)
    /\ ~location.null =>
          IF hotspotsLimit.null THEN filteredHotspots = sortedFilteredHotspots
          ELSE IsPrefixOfLength(filteredHotspots, sortedFilteredHotspots, hotspotsLimit.n)

\* Both lists are cut by their limits
C6_Witness ==
    /\ ~resultsLimit.null
    /\ resultsLimit.n < Len(filteredBirds)
    /\ Len(displayedBirds) = resultsLimit.n
    /\ ~hotspotsLimit.null
    /\ hotspotsLimit.n < Len(sortedFilteredHotspots)
    /\ Len(filteredHotspots) = hotspotsLimit.n
    /\ sortOption # qualityHighestSort

\* The hotspots of the search whose count, 0 when absent, reaches the threshold
HotspotsAtLeast(minSpecies) ==
    {h \in Range(hotspots) :
        (IF h.numSpeciesAllTime.present THEN h.numSpeciesAllTime.n ELSE 0) >= minSpecies}

\* C7: the hotspot list holds only hotspots whose count (0 when absent) is
\* at least the threshold and, under no limit, all of them; with threshold 0
\* and no limit it holds every hotspot of the search.
C7_QualityFilter ==
    ~location.null =>
        /\ Range(filteredHotspots) \subseteq HotspotsAtLeast(qualityFilter.minSpecies)
        /\ hotspotsLimit.null =>
              /\ Range(filteredHotspots) = HotspotsAtLeast(qualityFilter.minSpecies)
              /\ Len(filteredHotspots) = Cardinality(HotspotsAtLeast(qualityFilter.minSpecies))
        /\ (hotspotsLimit.null /\ qualityFilter.minSpecies = 0) =>
              IsPermutation(filteredHotspots, hotspots)

\* A hotspot exactly at the threshold is kept while one below it is dropped
C7_Witness ==
    /\ hotspotsLimit.null
    /\ qualityFilter.minSpecies = 25
    /\ \E h \in Range(filteredHotspots) : h.numSpeciesAllTime = SpeciesCount(25)
    /\ \E h \in Range(hotspots) : ~h.numSpeciesAllTime.present
    /\ Len(filteredHotspots) < Len(hotspots)

\* The order of two adjacent entries under the criterion and the direction
InKeyOrder(a, b, by, direction) ==
    CASE by = "likelihood" ->
            IF direction = "asc" THEN a.likelihood.val <= b.likelihood.val
            ELSE a.likelihood.val >= b.likelihood.val
      [] by = "name" ->
            IF direction = "asc" THEN localeCompare(a.comName, b.comName) <= 0
            ELSE localeCompare(a.comName, b.comName) >= 0

\* C8: under the criterion likelihood or name, the bird list before the
\* limit is a permutation of the scored list whose adjacent entries are in
\* non-decreasing key order when ascending and non-increasing when descending.
C8_BirdSortOrder ==
    sortBy \in {"likelihood", "name"} =>
        LET sorted == sortedBirds(filteredBirds, sortBy, sortDirection)
        IN  /\ IsPermutation(sorted, filteredBirds)
            /\ \A i \in 1..(Len(sorted) - 1) :
                  InKeyOrder(sorted[i], sorted[i + 1], sortBy, sortDirection)
            /\ resultsLimit.null => displayedBirds = sorted
            /\ \A i \in 1..(Len(displayedBirds) - 1) :
                  InKeyOrder(displayedBirds[i], displayedBirds[i + 1], sortBy, sortDirection)

\* Three species shown by name, last name first, in another order than stored
C8_Witness ==
    /\ sortBy = "name"
    /\ sortDirection = "desc"
    /\ resultsLimit.null
    /\ Len(displayedBirds) = 3
    /\ displayedBirds # filteredBirds
    /\ displayedBirds # Reverse(filteredBirds)

NoLikelihoodTies(birds) ==
    \A i, j \in 1..Len(birds) :
        i # j => birds[i].likelihood.val # birds[j].likelihood.val

OppositeDirection(direction) == IF direction = "asc" THEN "desc" ELSE "asc"

\* C9: when no two entries have the same likelihood, the list sorted by
\* likelihood in one direction is the reverse of the list sorted in the other.
C9_DescendingIsReverseOfAscending ==
    (sortBy = "likelihood" /\ NoLikelihoodTies(filteredBirds)) =>
        sortedBirds(filteredBirds, "likelihood", sortDirection)
            = Reverse(sortedBirds(filteredBirds, "likelihood",
                                  OppositeDirection(sortDirection)))

\* Three species of three different likelihoods, sorted ascending
C9_Witness ==
    /\ sortBy = "likelihood"
    /\ sortDirection = "asc"
    /\ Len(filteredBirds) = 3
    /\ NoLikelihoodTies(filteredBirds)
    /\ resultsLimit.null
    /\ displayedBirds = Reverse(filteredBirds)

tierRank(hotspot) == getHotspotQuality(hotspot.numSpeciesAllTime).rank

\* C10: sorted by quality, best first, no hotspot of a lower tier or of no
\* tier precedes one of a higher tier; lowest first, none of a higher tier
\* precedes one of a lower tier or of no tier.
C10_QualitySortFollowsTier ==
    (sortOption.value = "quality" /\ ~location.null) =>
        \A i, j \in 1..Len(filteredHotspots) :
            i < j =>
                IF sortOption.direction = "desc"
                THEN tierRank(filteredHotspots[i]) >= tierRank(filteredHotspots[j])
                ELSE tierRank(filteredHotspots[i]) <= tierRank(filteredHotspots[j])

\* Lowest first: a hotspot without a tier, then two of rising tiers, which
\* the search returned in another order
C10_Witness ==
    /\ sortOption = [value |-> "quality", direction |-> "asc"]
    /\ Len(filteredHotspots) = 3
    /\ tierRank(filteredHotspots[1]) = 0
    /\ tierRank(filteredHotspots[2]) > 0
    /\ tierRank(filteredHotspots[3]) > tierRank(filteredHotspots[2])
    /\ filteredHotspots # hotspots

\* The distance of a hotspot from the search origin is unknown
distanceUnknown(hotspot) ==
    calculateDistance(location.latitude, location.longitude,
                      hotspot.latitude, hotspot.longitude).null

\* C11: sorted by distance, every hotspot of unknown distance comes after
\* every hotspot of known distance when nearest first and before every one
\* of them when farthest first, and the sort drops or adds no hotspot.
C11_UnknownDistanceAtFarEnd ==
    (sortOption.value = "distance" /\ ~location.null) =>
        /\ \A i, j \in 1..Len(filteredHotspots) :
              (distanceUnknown(filteredHotspots[i]) /\ ~distanceUnknown(filteredHotspots[j])) =>
                  IF sortOption.direction = "asc" THEN j < i ELSE i < j
        /\ IsPermutation(sortedFilteredHotspots, qualityFiltered(hotspots, qualityFilter))

\* Nearest first, the search returned a hotspot of unknown distance ahead of
\* two of known distance and the list shows it last
C11_Witness ==
    /\ sortOption = [value |-> "distance", direction |-> "asc"]
    /\ Len(hotspots) = 3
    /\ distanceUnknown(hotspots[1])
    /\ Len(filteredHotspots) = 3
    /\ ~distanceUnknown(filteredHotspots[1])
    /\ ~distanceUnknown(filteredHotspots[2])
    /\ filteredHotspots[3] = hotspots[1]

\* The haversine distance before toFixed(1), in thousandths of a mile, of a
\* hotspot on the meridian of the search origin
unroundedDistance(hotspot) ==
    milesOfLatitude(IF hotspot.latitude >= location.latitude
                    THEN hotspot.latitude - location.latitude
                    ELSE location.latitude - hotspot.latitude)

\* C22: sorted by distance, of two hotspots of known distance the one whose
\* unrounded distance is smaller comes first when nearest first and second
\* when farthest first, however close the two distances are.
C22_UnroundedDistanceOrder ==
    (sortOption.value = "distance" /\ ~location.null) =>
        \A i, j \in 1..Len(filteredHotspots) :
            (/\ ~distanceUnknown(filteredHotspots[i])
             /\ ~distanceUnknown(filteredHotspots[j])
             /\ unroundedDistance(filteredHotspots[i]) < unroundedDistance(filteredHotspots[j])) =>
                IF sortOption.direction = "asc" THEN i < j ELSE j < i

\* C16: a batch without records scores to an empty list, and the bird and
\* the hotspot ranking return an empty list for an empty list under every
\* setting.
C16_EmptyInEmptyOut ==
    /\ (scoringPc = "scored" /\ birdsData = <<>>) => scoredBirds = <<>>
    /\ filteredBirds = <<>> =>
          /\ displayedBirds = <<>>
          /\ \A by \in SortByOptions, direction \in SortDirections,
                limit \in ResultsLimitOptions :
                displayedBirdsOf(filteredBirds, by, direction, limit) = <<>>
    /\ hotspots = <<>> =>
          \A origin \in {Origin, NullLocation}, level \in 1..Len(QUALITY_LEVELS),
             option \in 1..Len(SORT_OPTIONS), limit \in HotspotsLimitOptions :
             applyFilters(hotspots, origin, QUALITY_LEVELS[level], SORT_OPTIONS[option],
                          limit) = <<>>

\* The scorer has returned for a batch without records
C16_Witness ==
    /\ scoringPc = "scored"
    /\ birdsData = <<>>
    /\ scoredBirds = <<>>
    /\ displayedBirds = <<>>

C25_SubscoreBounds ==
    (scoringPc = "scored" /\ birdsData # <<>>) =>
        LET speciesMap == speciesMapOf(birdsData)
            maxS == maxSightings(speciesMap)
            maxV == maxVolume(speciesMap)
        IN  \A code \in Range(speciesMap.keys) :
                LET observations == speciesMap.get[code]
                    volume == volumeScore(observations, maxV)
                IN  /\ frequencyScore(observations, maxS) \in 0..50000
                    /\ recencyScore(observations) \in 0..30000
                    /\ ~isNaN(volume) /\ volume.val \in 0..20000
                    /\ consistencyScore(observations) \in 0..10000

\* A species with three records over one day: frequency 50, volume 20 and
\* the consistency subscore at its cap of 10
C25_Witness ==
    /\ scoringPc = "scored"
    /\ Len(scoredBirds) = 1
    /\ Len(birdsData) = 3
    /\ consistencyScore(birdsData) = 10000
    /\ frequencyScore(birdsData, 3) = 50000
    /\ \E i, j \in 1..3 : birdsData[i].obsDt - birdsData[j].obsDt = 1
    /\ \A i, j \in 1..3 : birdsData[i].obsDt - birdsData[j].obsDt < 2

-----------------------------------------------------------------------------
(* The scorer applied to batches whose records carry every kind of count    *)

\* A small and a larger count, the letter X, another string, no count
AllHowManyValues ==
    HowManyValues \cup {HowManyNumber(1), HowManyString("several")}

VolumeObservations == ObservationsOf(ScoreSpecies, {0}, AllHowManyValues)

VolumeInit ==
    /\ birdsData \in SeqsUpTo(VolumeObservations, MaxBatch)
    /\ scoredBirds = <<>>
    /\ scoringPc = "input"
    /\ RankIdle
    /\ RadiusIdle
    /\ CardIdle
    /\ HotspotSearchIdle

SpecVolume == VolumeInit /\ [][ScoreNext]_vars

\* The count a record stands for: its number, 25 for the letter X, 1 otherwise
resolvedCount(howMany) ==
    CASE howMany.type = "number" -> howMany.num
      [] howMany = HowManyString("X") -> 25
      [] OTHER -> 1

\* The sum of the resolved counts of the records of a species in the batch
resolvedVolume(birds, code) ==
    SumSeq([i \in 1..Len(birds) |->
              IF birds[i].speciesCode = code THEN resolvedCount(birds[i].howMany) ELSE 0])

speciesOf(birds) == {birds[i].speciesCode : i \in 1..Len(birds)}

\* C18: the total volume of every species and the largest volume of the
\* batch are sums of the records' counts with a number counted as itself,
\* the letter X as 25 and anything else as 1; and every species of the batch
\* is scored, whatever the counts of its records.
C18_CountResolution ==
    scoringPc = "scored" =>
        LET speciesMap == speciesMapOf(birdsData)
        IN  /\ \A code \in speciesOf(birdsData) :
                  /\ totalVolumeOf(speciesMap.get[code]) = resolvedVolume(birdsData, code)
                  /\ maxVolume(speciesMap) >= resolvedVolume(birdsData, code)
                  /\ \E i \in 1..Len(scoredBirds) :
                        /\ scoredBirds[i].speciesCode = code
                        /\ ~isNaN(scoredBirds[i].likelihood)
            /\ birdsData # <<>> =>
                  \E code \in speciesOf(birdsData) :
                      maxVolume(speciesMap) = resolvedVolume(birdsData, code)
            /\ Len(scoredBirds) = Cardinality(speciesOf(birdsData))

\* One species seen with the letter X, with another string and with no count
C18_Witness ==
    /\ scoringPc = "scored"
    /\ Len(birdsData) = 3
    /\ birdsData[1].howMany = HowManyString("X")
    /\ birdsData[2].howMany = HowManyString("several")
    /\ birdsData[3].howMany = HowManyMissing
    /\ speciesOf(birdsData) = {"amerob"}
    /\ maxVolume(speciesMapOf(birdsData)) = 27
    /\ Len(scoredBirds) = 1

\* The largest resolved volume of a species of the batch
largestVolume(birds) ==
    LET volumes == {resolvedVolume(birds, code) : code \in speciesOf(birds)}
    IN  CHOOSE v \in volumes : \A w \in volumes : w <= v

\* C24: the volume subscore of a species is min(1, totalVolume / (0.7 *
\* maxVolume)) * 20: exactly 20 from 70% of the batch maximum on, the
\* proportional value below, and never above 20.
C24_VolumeSubscore ==
    (scoringPc = "scored" /\ birdsData # <<>>) =>
        LET top == largestVolume(birdsData)
        IN  \A code \in speciesOf(birdsData) :
                LET total == resolvedVolume(birdsData, code)
                    score == volumeScore(RecordsOfSpecies(birdsData, code),
                                         maxVolume(speciesMapOf(birdsData)))
                IN  /\ ~isNaN(score)
                    /\ score.val <= 20000
                    /\ (10 * total >= 7 * top) => score.val = 20000
                    /\ (10 * total < 7 * top) =>
                          /\ score.val = ((total * 10000) \div (top * 7)) * 20
                          /\ score.val < 20000

\* A species at three quarters of the batch maximum, which gets the full 20
C24_Witness ==
    /\ scoringPc = "scored"
    /\ \E code \in speciesOf(birdsData) :
          /\ resolvedVolume(birdsData, code) = 3
          /\ largestVolume(birdsData) = 4

-----------------------------------------------------------------------------
(* The scorer applied to batches of two species to compare and a third      *)
(* species that sets the maxima of the batch                                *)

\* The most records either of the two compared species has
MaxSpeciesRecords == 3

\* How many days before `now` the records were observed
MonotoneDays == {0, 1, 2, 3}

\* How many records the third species has: none, or enough to set the
\* largest record count of the batch
CrowdSizes == {0, 12}

\* The days of a species' records, most recent first
DaySeqs ==
    {s \in SeqsUpTo(MonotoneDays, MaxSpeciesRecords) :
        /\ Len(s) >= 1
        /\ \A i \in 1..(Len(s) - 1) : s[i] <= s[i + 1]}

\* Records of one species on the given days, each with the same count
RecordsOn(code, days, howMany) ==
    [i \in 1..Len(days) |->
        [speciesCode |-> code, comName |-> ComNameOf(code), obsDt |-> Now - days[i],
         howMany |-> howMany, obsValid |-> TRUE]]

MonotoneBatches ==
    {RecordsOn("amerob", p, hp) \o RecordsOn("norcar", q, hq)
         \o RecordsOn("bkcchi", [i \in 1..crowd |-> 0], HowManyString("X")) :
        p \in DaySeqs, q \in DaySeqs,
        hp \in {HowManyNumber(1), HowManyString("X")},
        hq \in {HowManyNumber(1)},
        crowd \in CrowdSizes}

MonotoneInit ==
    /\ birdsData \in MonotoneBatches
    /\ scoredBirds = <<>>
    /\ scoringPc = "input"
    /\ RankIdle
    /\ RadiusIdle
    /\ CardIdle
    /\ HotspotSearchIdle

SpecMonotone == MonotoneInit /\ [][ScoreNext]_vars

\* The days before `now` of the records of a species in the batch
daysOf(birds, code) ==
    {Now - birds[i].obsDt : i \in {k \in 1..Len(birds) : birds[k].speciesCode = code}}

recordCountOf(birds, code) ==
    Cardinality({i \in 1..Len(birds) : birds[i].speciesCode = code})

\* The days between the oldest and the newest record of a species
dateRangeOf(birds, code) ==
    LET days == daysOf(birds, code)
    IN  (CHOOSE d \in days : \A e \in days : e <= d)
            - (CHOOSE d \in days : \A e \in days : d <= e)

\* The likelihood the scorer gave the species
likelihoodIn(scored, code) ==
    LET i == CHOOSE k \in 1..Len(scored) : scored[k].speciesCode = code
    IN  scored[i].likelihood.val

\* P has more records than Q, each of them more recent than every record of
\* Q, and a higher total volume; the records of both span as many days
dominates(birds, p, q) ==
    /\ recordCountOf(birds, p) > recordCountOf(birds, q)
    /\ \A dp \in daysOf(birds, p), dq \in daysOf(birds, q) : dp < dq
    /\ resolvedVolume(birds, p) > resolvedVolume(birds, q)
    /\ dateRangeOf(birds, p) = dateRangeOf(birds, q)

\* C19: a species with more records, more recent records and a higher total
\* volume than another species of the batch, the records of both spanning
\* as many days, has a likelihood at least as high as the other's.
C19_Monotone ==
    scoringPc = "scored" =>
        \A p, q \in speciesOf(birdsData) :
            dominates(birdsData, p, q)
                => likelihoodIn(scoredBirds, p) >= likelihoodIn(scoredBirds, q)

\* The records of both species are a day apart, the third species sets the
\* maxima of the batch and the dominating species wins by a narrow margin
C19_Witness ==
    /\ scoringPc = "scored"
    /\ dominates(birdsData, "amerob", "norcar")
    /\ dateRangeOf(birdsData, "norcar") = 1
    /\ "bkcchi" \in speciesOf(birdsData)
    /\ likelihoodIn(scoredBirds, "amerob") >= likelihoodIn(scoredBirds, "norcar")
    /\ likelihoodIn(scoredBirds, "amerob") < likelihoodIn(scoredBirds, "norcar") + 12

-----------------------------------------------------------------------------
(* The scorer applied to records of September 2001, when the millisecond    *)
(* timestamp went from 12 digits to 13, and to records of today             *)

MaxEpochBatch == 3

\* Days before `now`: 8427 to 8424 are 2001-09-08 to 2001-09-11; the
\* timestamps of the first two have 12 digits and those of the last two 13
EpochDaysAgo == {8427, 8426, 8425, 8424, 1, 0}

EpochObservations == ObservationsOf({"amerob", "norcar"}, EpochDaysAgo, {HowManyNumber(3)})

EpochInit ==
    /\ birdsData \in SeqsUpTo(EpochObservations, MaxEpochBatch)
    /\ scoredBirds = <<>>
    /\ scoringPc = "input"
    /\ RankIdle
    /\ RadiusIdle
    /\ CardIdle
    /\ HotspotSearchIdle

SpecEpoch == EpochInit /\ [][ScoreNext]_vars

\* The obsDt values of the species' records
obsDtsOf(birds, code) ==
    {birds[i].obsDt : i \in {k \in 1..Len(birds) : birds[k].speciesCode = code}}

\* C23: the consistency subscore of a species is 0 with a single record or
\* with no time between its earliest and its latest sighting, and otherwise
\* min(10, (recordCount / dateRangeDays) * 5) with dateRangeDays the days
\* from the chronologically earliest to the chronologically latest sighting.
C23_ConsistencyByChronologicalSpan ==
    scoringPc = "scored" =>
        \A code \in speciesOf(birdsData) :
            LET observations == RecordsOfSpecies(birdsData, code)
                dts == obsDtsOf(birdsData, code)
                earliest == CHOOSE d \in dts : \A e \in dts : d <= e
                latest == CHOOSE d \in dts : \A e \in dts : e <= d
            IN  consistencyScore(observations) =
                    IF Len(observations) = 1 \/ earliest = latest THEN 0
                    ELSE Min(10000, (Len(observations) * 5000) \div (latest - earliest))

-----------------------------------------------------------------------------
(* The bird list of MainScreen with the batch of the search at hand          *)

\* loadBirds lines 130-132: the batch fetchNearbyBirds returned, scored and
\* stored by setBirds
SearchInit ==
    /\ birdsData \in SeqsUpTo(RankObservations, MaxRankBatch)
    /\ scoredBirds = calculateBirdLikelihood(birdsData)
    /\ scoringPc = "scored"
    /\ RadiusIdle
    /\ CardIdle
    /\ HotspotSearchIdle
    /\ viewMode = "birds"
    /\ filteredBirds = scoredBirds
    /\ sortBy = "likelihood"
    /\ sortDirection = "desc"
    /\ resultsLimit = LimitOf(25)
    /\ hotspots = <<>>
    /\ location = Origin
    /\ qualityFilter = QUALITY_LEVELS[1]
    /\ sortOption = qualityHighestSort
    /\ hotspotsLimit = LimitOf(10)
    /\ filteredHotspots = <<>>

SearchNext ==
    \/ \E option \in SortByOptions : handleSortOptionSelect(option)
    \/ toggleSortDirection
    \/ \E limit \in ResultsLimitOptions : handleResultsLimitSelect(limit)
    \/ handleReset

SpecSearch == SearchInit /\ [][SearchNext]_vars

\* The date of the most recent record of a species in the batch
mostRecentObsDt(birds, code) ==
    LET dates == {birds[i].obsDt : i \in {k \in 1..Len(birds) : birds[k].speciesCode = code}}
    IN  CHOOSE d \in dates : \A e \in dates : e <= d

\* C20: sorted by date, the species of the displayed list follow one another
\* by the date of the most recent record of each species in the batch,
\* oldest first when ascending and newest first when descending.
C20_DateSortByMostRecent ==
    sortBy = "date" =>
        \A i \in 1..(Len(displayedBirds) - 1) :
            LET this == mostRecentObsDt(birdsData, displayedBirds[i].speciesCode)
                next == mostRecentObsDt(birdsData, displayedBirds[i + 1].speciesCode)
            IN  IF sortDirection = "asc" THEN this <= next ELSE this >= next

-----------------------------------------------------------------------------
(* The card of a hotspot: its distance from the origin and its tier, for    *)
(* every hotspot and origin of a bounded set                                *)

\* How far the counts of the model lie from a breakpoint, and the latitudes
\* from the origin's in hundredths of a degree
MaxCardStep == 1

\* The counts next to the breakpoints of getHotspotQuality, the smallest
\* counts, and no count
CardCounts ==
    {SpeciesCount(b + k) : b \in {25, 50, 100, 200}, k \in (0 - MaxCardStep)..MaxCardStep}
        \cup {SpeciesCount(0), SpeciesCount(1), NoSpeciesCount}

\* Hotspots on the origin's meridian, on the equator and on the prime meridian
CardHotspots ==
    {[locId |-> "L1", locName |-> "Eagle Bluff", latitude |-> lat, longitude |-> lon,
      numSpeciesAllTime |-> count] :
        lat \in {0} \cup {Origin.latitude + k * 100 : k \in (0 - MaxCardStep)..MaxCardStep},
        lon \in {0, Origin.longitude},
        count \in CardCounts}

\* The user's position: the origin, or a place on the equator or the prime
\* meridian or both
CardLocations ==
    {[null |-> FALSE, latitude |-> lat, longitude |-> lon] :
        lat \in {0, Origin.latitude}, lon \in {0, Origin.longitude}}

\* A hotspot search has returned one hotspot
CardInit ==
    /\ ScoringIdle
    /\ RadiusIdle
    /\ CardIdle
    /\ HotspotSearchIdle
    /\ viewMode = "hotspots"
    /\ filteredBirds = <<>>
    /\ sortBy = "likelihood"
    /\ sortDirection = "desc"
    /\ resultsLimit = LimitOf(25)
    /\ hotspots \in {<<h>> : h \in CardHotspots}
    /\ location \in CardLocations
    /\ qualityFilter = QUALITY_LEVELS[1]
    /\ sortOption = qualityHighestSort
    /\ hotspotsLimit = LimitOf(10)
    /\ filteredHotspots =
          applyFilters(hotspots, location, qualityFilter, sortOption, hotspotsLimit)

CardNext == \E i \in 1..Len(filteredHotspots) : renderHotspotItem(i)

SpecCard == CardInit /\ [][CardNext]_vars

\* The count of the rendered hotspot lies in the half-open band (low, high]
cardCountIn(low, high) ==
    /\ card.hotspot.numSpeciesAllTime.present
    /\ card.hotspot.numSpeciesAllTime.n > low
    /\ card.hotspot.numSpeciesAllTime.n <= high

\* C12: a count above 200 is Exceptional, one in (100, 200] Excellent, one in
\* (50, 100] Very Good, one in (25, 50] Good, so 201 is Exceptional and 200
\* Excellent; and no larger count has a lower tier than the rendered one.
C12_StrictBreakpoints ==
    card.rendered =>
        /\ (card.hotspot.numSpeciesAllTime.present
                /\ card.hotspot.numSpeciesAllTime.n > 200) => card.quality.label = "Exceptional"
        /\ cardCountIn(100, 200) => card.quality.label = "Excellent"
        /\ cardCountIn(50, 100) => card.quality.label = "Very Good"
        /\ cardCountIn(25, 50) => card.quality.label = "Good"
        /\ \A larger \in CardCounts :
              (/\ larger.present
               /\ card.hotspot.numSpeciesAllTime.present
               /\ larger.n > card.hotspot.numSpeciesAllTime.n)
                  => getHotspotQuality(larger).rank >= card.quality.rank

\* The card of a hotspot of exactly 200 species shows Excellent
C12_Witness ==
    /\ card.rendered
    /\ card.hotspot.numSpeciesAllTime = SpeciesCount(200)
    /\ card.quality.label = "Excellent"

\* C13: a count that is present and at most 25 shows Moderate, and only a
\* hotspot without a count shows no tier.
C13_PresentLowCountIsModerate ==
    card.rendered =>
        /\ (card.hotspot.numSpeciesAllTime.present
                /\ card.hotspot.numSpeciesAllTime.n <= 25) => card.quality.label = "Moderate"
        /\ card.quality.label = "none" => ~card.hotspot.numSpeciesAllTime.present

\* One of the four coordinates handed to calculateDistance is zero
cardHasZeroCoordinate ==
    \/ location.latitude = 0
    \/ location.longitude = 0
    \/ card.hotspot.latitude = 0
    \/ card.hotspot.longitude = 0

\* The degrees of latitude between the origin and the rendered hotspot, in
\* ten-thousandths
cardLatitudeGap ==
    IF card.hotspot.latitude >= location.latitude
    THEN card.hotspot.latitude - location.latitude
    ELSE location.latitude - card.hotspot.latitude

\* C14: the distance is unknown exactly when one of the four coordinates is
\* zero; otherwise it is the great-circle distance in miles, which along a
\* meridian is 3958.8 * pi / 180 = 69.094 miles a degree, to the nearest tenth.
C14_UnknownIffZeroCoordinate ==
    card.rendered =>
        /\ card.distance.null <=> cardHasZeroCoordinate
        /\ ~cardHasZeroCoordinate =>
              /\ card.distance.tenths >= 0
              /\ card.distance.tenths * 1000000 - 500000 <= cardLatitudeGap * 69094
              /\ cardLatitudeGap * 69094 < card.distance.tenths * 1000000 + 500000

\* A hotspot at (0, 0) seen from the origin has no distance
C14_Witness ==
    /\ card.rendered
    /\ location = Origin
    /\ card.hotspot.latitude = 0
    /\ card.hotspot.longitude = 0
    /\ card.distance.null

\* C15: the distance from a point to itself is 0.0 miles, whatever the point.
C15_SelfDistanceIsZero ==
    (/\ card.rendered
     /\ card.hotspot.latitude = location.latitude
     /\ card.hotspot.longitude = location.longitude)
        => card.distance = toFixed1(0)

-----------------------------------------------------------------------------
(* MainScreen: loadBirds, its effects and the radius auto-expansion.        *)
(*                                                                          *)
(* An invocation of loadBirds is a record of its arguments, of the values   *)
(* its closure captured (hasAutoExpanded, birdImages) and of the await it   *)
(* stands at.  The steps an invocation runs between two awaits are split    *)
(* where it changes a dependency of loadBirds, because React renders and    *)
(* runs the effects there when it does not batch the updates; when it       *)
(* batches them the effects wait until the invocation reaches its next      *)
(* await.  Effects run before the next event is handled.                    *)

\* RADIUS_OPTIONS: 5, 10 and 25 miles; 15 miles acts as 25 does
RADIUS_OPTIONS == {5, 10, 25}

\* The user presses or pulls while fewer searches than this are in flight
MaxInFlight == 1

MaxImageAnswers == 1

\* The history counters stop at MaxCount, which stands for "or more"
MaxCount == 2

oneMore(n) == IF n < MaxCount THEN n + 1 ELSE n

\* What fetchNearbyBirds may return: nothing, or records of one species
NearbyBatches ==
    {<<>>,
     <<[speciesCode |-> "amerob", comName |-> ComNameOf("amerob"), obsDt |-> Now,
        howMany |-> HowManyNumber(3), obsValid |-> TRUE]>>}

\* calculateBirdLikelihood of each of them
scoredBatches == [data \in NearbyBatches |-> calculateBirdLikelihood(data)]

\* useCallback(..., [searchRadius, hasAutoExpanded, birdImages, resultsLimit])
currentDeps == [searchRadius |-> searchRadius, hasAutoExpanded |-> hasAutoExpanded]

\* A render since the last run of the effects gave loadBirds a new identity
effectsPending == renderedDeps # currentDeps \/ birdImagesReplaced

\* An invocation stands between two awaits
running == \E c \in BagToSet(calls) : c.pc \in {"setRadius", "finish"}

userMayAct == BagCardinality(calls) < MaxInFlight

\* Nothing runs: the next event can be handled
idle == mounted /\ ~effectsPending /\ ~running

\* loadBirds(radius, shouldAutoExpand) as the current render defines it
loadBirdsCall(radius, shouldAutoExpand) ==
    [radius |-> radius, shouldAutoExpand |-> shouldAutoExpand,
     hasAutoExpanded |-> hasAutoExpanded, birdImages |-> birdImages,
     pc |-> "fetch"]

\* lines 95-98: what loadBirds sets before its first await
loadBirdsBegins ==
    /\ isLoading' = TRUE
    /\ isFullyLoaded' = FALSE
    /\ error' = FALSE
    /\ refreshing' = TRUE

\* A finally block that leaves the refresh control spinning
loadBirdsFinallyKeepsRefreshing ==
    /\ isLoading' = FALSE
    /\ refreshing' = refreshing

\* lines 191-193: finally
loadBirdsFinally ==
    /\ isLoading' = FALSE
    /\ refreshing' = FALSE

callReturns(c) == calls' = calls (-) SetToBag({c})

callMoves(c, d) == calls' = (calls (-) SetToBag({c})) (+) SetToBag({d})

callStarts(c) == calls' = calls (+) SetToBag({c})

\* renderFooter, line 490: the footer holds the radius and the filter buttons
footerVisible ==
    /\ ~location.null
    /\ ~isLoading
    /\ ~error
    /\ viewMode = "birds"
    /\ Len(displayedBirds) > 0

\* lines 299-306 at the first render: loadBirds() and setHasAutoExpanded(false)
mount ==
    /\ ~mounted
    /\ mounted' = TRUE
    /\ callStarts(loadBirdsCall(searchRadius, TRUE))
    /\ loadBirdsBegins
    /\ hasAutoExpanded' = FALSE
    /\ renderedDeps' = currentDeps
    /\ birdImagesReplaced' = FALSE
    /\ UNCHANGED <<searchRadius, birdImages, isLoadingImages, batching, historyVars,
                   scoringVars, card, hsearchVars, rankVars>>

\* lines 299-301: [loadBirds] changed, so loadBirds() runs
loadBirdsEffect ==
    /\ callStarts(loadBirdsCall(searchRadius, TRUE))
    /\ loadBirdsBegins
    /\ expandedSearches' =
          IF lastChange = "expansion" /\ searchRadius = 10
          THEN oneMore(expandedSearches) ELSE expandedSearches

\* lines 304-306: [searchRadius] changed, so setHasAutoExpanded(false) runs
resetAutoExpandEffect ==
    hasAutoExpanded' =
        IF renderedDeps.searchRadius # searchRadius THEN FALSE ELSE hasAutoExpanded

\* The effects of a render whose dependencies changed, in their order
flushEffects ==
    /\ mounted
    /\ effectsPending
    /\ batching => ~running
    /\ loadBirdsEffect
    /\ resetAutoExpandEffect
    /\ renderedDeps' = currentDeps
    /\ birdImagesReplaced' = FALSE
    /\ UNCHANGED <<searchRadius, birdImages, isLoadingImages, mounted, batching,
                   lastChange, expansions, imageAnswers, scoringVars, card, hsearchVars, rankVars>>

\* lines 111-118 and 180-193: permission denied, or a rejected await
loadBirdsFails(c) ==
    /\ idle
    /\ c.pc = "fetch"
    /\ \E reached \in {location, Origin} : location' = reached
    /\ error' = TRUE
    /\ isFullyLoaded' = TRUE
    /\ loadBirdsFinally
    /\ callReturns(c)
    /\ UNCHANGED <<searchRadius, hasAutoExpanded, birdImages, isLoadingImages, mounted,
                   renderedDeps, birdImagesReplaced, batching, historyVars, scoringVars, card, hsearchVars,
                   viewMode, filteredBirds, birdSettings, hotspots, hotspotSettings>>

\* line 135: the condition of the auto-expansion
shouldExpand(c, scored) ==
    Len(scored) = 0 /\ c.radius = 5 /\ c.shouldAutoExpand /\ ~c.hasAutoExpanded

\* lines 141-143: birdsNeedingImages, by the birdImages the closure captured
birdsNeedingImages(c, scored) ==
    {scored[i].speciesCode : i \in 1..Len(scored)} \ c.birdImages

\* lines 120-193: the fetch answers and the invocation runs up to
\* setHasAutoExpanded(true), up to addBirdImages, or to its end.  newImages
\* are the birds fetchBirdImages found images for (none when it fails); its
\* answer is taken to arrive before any other event.
loadBirdsReceives(c, data, newImages) ==
    /\ idle
    /\ c.pc = "fetch"
    /\ location' = Origin
    /\ LET scored == scoredBatches[data]
       IN  /\ filteredBirds' = scored
           /\ IF shouldExpand(c, scored)
              THEN /\ newImages = {}
                   /\ hasAutoExpanded' = TRUE
                   /\ callMoves(c, [c EXCEPT !.pc = "setRadius"])
                   /\ lastChange' = "expansion"
                   /\ expansions' = oneMore(expansions)
                   /\ UNCHANGED <<loadFlags, birdImages, birdImagesReplaced, imageAnswers>>
              ELSE /\ newImages \subseteq birdsNeedingImages(c, scored)
                   /\ IF newImages # {}
                      THEN /\ imageAnswers < MaxImageAnswers
                           /\ imageAnswers' = imageAnswers + 1
                           /\ isLoadingImages' = TRUE
                           /\ birdImages' = birdImages \cup newImages
                           /\ birdImagesReplaced' = TRUE
                           /\ lastChange' = "images"
                           /\ callMoves(c, [c EXCEPT !.pc = "finish"])
                           /\ UNCHANGED <<isLoading, isFullyLoaded, refreshing, error>>
                      ELSE /\ isFullyLoaded' = TRUE
                           /\ loadBirdsFinally
                           /\ callReturns(c)
                           /\ UNCHANGED <<isLoadingImages, error, birdImages,
                                          birdImagesReplaced, lastChange, imageAnswers>>
                   /\ UNCHANGED <<hasAutoExpanded, expansions>>
    /\ UNCHANGED <<searchRadius, mounted, renderedDeps, batching, expandedSearches,
                   scoringVars, card, hsearchVars, viewMode, birdSettings, hotspots,
                   hotspotSettings>>

\* lines 137-138 and 191-193: setSearchRadius(10), then loadBirds(10, false)
\* by the same closure; the caller's finally repeats the callee's
expandSetRadius(c) ==
    /\ c.pc = "setRadius"
    /\ ~batching => ~effectsPending
    /\ searchRadius' = 10
    /\ callMoves(c, [c EXCEPT !.radius = 10, !.shouldAutoExpand = FALSE,
                              !.pc = "fetch"])
    /\ loadBirdsBegins
    /\ expandedSearches' = oneMore(expandedSearches)
    /\ UNCHANGED <<hasAutoExpanded, birdImages, isLoadingImages, mounted, renderedDeps,
                   birdImagesReplaced, batching, lastChange, expansions, imageAnswers, scoringVars, card, hsearchVars, rankVars>>

\* lines 157-159 and 191-193: the finally blocks after the images
loadBirdsFinishes(c) ==
    /\ c.pc = "finish"
    /\ ~batching => ~effectsPending
    /\ isLoadingImages' = FALSE
    /\ isFullyLoaded' = TRUE
    /\ loadBirdsFinally
    /\ callReturns(c)
    /\ UNCHANGED <<searchRadius, hasAutoExpanded, birdImages, error, mounted,
                   renderedDeps, birdImagesReplaced, batching, historyVars, scoringVars, card, hsearchVars,
                   rankVars>>

\* RadiusSettings.handleSelect and handleRadiusChange: setSearchRadius(radius),
\* then loadBirds(searchRadius, false) with the radius of the current render
handleSelect(radius) ==
    /\ idle
    /\ footerVisible
    /\ userMayAct
    /\ searchRadius' = radius
    /\ callStarts(loadBirdsCall(searchRadius, FALSE))
    /\ loadBirdsBegins
    /\ IF radius # searchRadius
       THEN lastChange' = "manual" /\ expansions' = 0 /\ expandedSearches' = 0
       ELSE UNCHANGED <<lastChange, expansions, expandedSearches>>
    /\ UNCHANGED <<hasAutoExpanded, birdImages, isLoadingImages, mounted, renderedDeps,
                   birdImagesReplaced, batching, imageAnswers, scoringVars, card, hsearchVars, rankVars>>

\* line 670: the pull to refresh, which the control offers while not refreshing
onRefresh ==
    /\ idle
    /\ ~error
    /\ ~refreshing
    /\ viewMode = "birds"
    /\ userMayAct
    /\ callStarts(loadBirdsCall(searchRadius, TRUE))
    /\ loadBirdsBegins
    /\ UNCHANGED <<searchRadius, hasAutoExpanded, birdImages, isLoadingImages, mounted,
                   renderedDeps, birdImagesReplaced, batching, lastChange, expansions,
                   expandedSearches, imageAnswers, scoringVars, card, hsearchVars, rankVars>>

\* lines 576 and 599: Try Again on the error view
tryAgain ==
    /\ idle
    /\ error
    /\ userMayAct
    /\ callStarts(loadBirdsCall(searchRadius, TRUE))
    /\ loadBirdsBegins
    /\ UNCHANGED <<searchRadius, hasAutoExpanded, birdImages, isLoadingImages, mounted,
                   renderedDeps, birdImagesReplaced, batching, lastChange, expansions,
                   expandedSearches, imageAnswers, scoringVars, card, hsearchVars, rankVars>>

\* The screen before its first effects: the store's defaults, with the
\* persisted searchRadius and birdImages
RadiusInit ==
    /\ ScoringIdle
    /\ CardIdle
    /\ HotspotSearchIdle
    /\ viewMode = "birds"
    /\ filteredBirds = <<>>
    /\ sortBy = "likelihood"
    /\ sortDirection = "desc"
    /\ resultsLimit = LimitOf(25)
    /\ hotspots = <<>>
    /\ location = NullLocation
    /\ qualityFilter = QUALITY_LEVELS[1]
    /\ sortOption = qualityHighestSort
    /\ hotspotsLimit = LimitOf(10)
    /\ filteredHotspots = <<>>
    /\ searchRadius \in RADIUS_OPTIONS
    /\ hasAutoExpanded = FALSE
    /\ birdImages \in SUBSET {"amerob"}
    /\ isLoading = FALSE
    /\ isLoadingImages = FALSE
    /\ isFullyLoaded = FALSE
    /\ refreshing = FALSE
    /\ error = FALSE
    /\ calls = EmptyBag
    /\ mounted = FALSE
    /\ renderedDeps = currentDeps
    /\ birdImagesReplaced = FALSE
    /\ batching \in BOOLEAN
    /\ lastChange = "none"
    /\ expansions = 0
    /\ expandedSearches = 0
    /\ imageAnswers = 0

RadiusNext ==
    \/ mount
    \/ flushEffects
    \/ \E c \in BagToSet(calls) : loadBirdsFails(c)
    \/ \E c \in BagToSet(calls), data \in NearbyBatches, newImages \in SUBSET {"amerob"} :
          loadBirdsReceives(c, data, newImages)
    \/ \E c \in BagToSet(calls) : expandSetRadius(c)
    \/ \E c \in BagToSet(calls) : loadBirdsFinishes(c)
    \/ \E radius \in RADIUS_OPTIONS : handleSelect(radius)
    \/ onRefresh
    \/ tryAgain

SpecRadius == RadiusInit /\ [][RadiusNext]_vars

\* No search is in flight and no effect is due
quiescent == mounted /\ calls = EmptyBag /\ ~effectsPending

\* C2: after a zero-result search at 5 miles has expanded the radius, at
\* most one search at 10 miles is set off by the expansion, and once all
\* searches have returned exactly one was and hasAutoExpanded is still set.
C2_ExactlyOneExpandedSearch ==
    expansions = 1 =>
        /\ expandedSearches <= 1
        /\ quiescent => (expandedSearches = 1 /\ hasAutoExpanded)

\* C3: between two manual changes of the radius the expansion runs at most
\* once, whatever the searches in flight answer.
C3_AtMostOneExpansion == expansions <= 1

\* C4: hasAutoExpanded goes from set to unset only by the effect of a manual
\* radius change, and from unset to set only by the expansion.
C4_FlagResetOnlyByManualChange ==
    [][/\ (hasAutoExpanded /\ ~hasAutoExpanded') => lastChange = "manual"
       /\ (~hasAutoExpanded /\ hasAutoExpanded') => lastChange' = "expansion"]_vars

\* Every awaited call settles (the location permission, the position, the
\* two fetches), React runs the effects that are due and the continuation of
\* an invocation that need not wait runs
SpecRadiusFair ==
    /\ SpecRadius
    /\ WF_vars(mount)
    /\ WF_vars(flushEffects)
    /\ WF_vars(\E c \in BagToSet(calls) :
                  \/ loadBirdsFails(c)
                  \/ \E data \in NearbyBatches, newImages \in SUBSET {"amerob"} :
                        loadBirdsReceives(c, data, newImages))
    /\ WF_vars(\E c \in BagToSet(calls) : expandSetRadius(c))
    /\ WF_vars(\E c \in BagToSet(calls) : loadBirdsFinishes(c))

\* The screen neither loads nor refreshes and shows an error or a full result
settled == ~isLoading /\ ~refreshing /\ (error \/ isFullyLoaded)

\* C29: whenever no invocation of loadBirds is in flight the screen is
\* settled (isLoading and refreshing are false and an error is recorded or
\* isFullyLoaded is true), and whenever one is in flight the screen is
\* settled again later, on every path the invocations take.
C29_LoadBirdsSettles ==
    /\ []((mounted /\ calls = EmptyBag) => settled)
    /\ (calls # EmptyBag) ~> settled

\* The first search found nothing at 5 miles, the expanded search found a
\* bird and its images, and nothing is in flight any more
C29_Witness ==
    /\ mounted
    /\ calls = EmptyBag
    /\ expansions = 1
    /\ imageAnswers = 1
    /\ isFullyLoaded
    /\ ~error
    /\ settled

-----------------------------------------------------------------------------
(* HotspotsScreen (src/unnamed/part_001): the hotspot search.  MainScreen's *)
(* loadHotspots (part_003 lines 198-213) has the same body.                 *)

\* The searches a behaviour may start
MaxHotspotSearches == 3

\* What fetchHotspots may answer: no hotspot, or several in an order that no
\* sort option yields
HotspotAnswers ==
    {<<>>,
     <<Hotspot("L2", "Dune Trail", 250, 0, SpeciesCount(25)),
       Hotspot("L5", "Alder Marsh", 500, Origin.longitude, SpeciesCount(201)),
       Hotspot("L1", "Eagle Bluff", 100, Origin.longitude, NoSpeciesCount)>>}

\* One invocation of loadHotspots: the radius of its closure and its place in
\* the order of the invocations
loadHotspotsCall(seq, radius) == [seq |-> seq, radius |-> radius]

\* The footer with the radius and filter buttons, part_001 line 477
hotspotsFooterVisible ==
    /\ ~location.null
    /\ ~isLoadingHotspots
    /\ ~error

\* part_001 lines 92-99: loadHotspots up to the await, with the searchRadius
\* of the render that made the function
loadHotspotsBegins(radius) ==
    /\ hotspotStarted < MaxHotspotSearches
    /\ ~location.null
    /\ isLoadingHotspots' = TRUE
    /\ error' = FALSE
    /\ hotspotStarted' = hotspotStarted + 1
    /\ hotspotCalls' = hotspotCalls \cup {loadHotspotsCall(hotspotStarted + 1, radius)}

\* loadHotspotsReceives with the expansion of loadBirds: an empty answer
\* below 10 miles sets the radius to 10 and searches again
loadHotspotsReceivesExpanding(c, data) ==
    /\ c \in hotspotCalls
    /\ hotspots' = data
    /\ hotspotsStoredBy' = c.seq
    /\ LET expand == data = <<>> /\ c.radius < 10 /\ hotspotStarted < MaxHotspotSearches
       IN  /\ isLoadingHotspots' = expand
           /\ searchRadius' = IF expand THEN 10 ELSE searchRadius
           /\ hasAutoExpanded' = IF expand THEN TRUE ELSE hasAutoExpanded
           /\ hotspotStarted' = IF expand THEN hotspotStarted + 1 ELSE hotspotStarted
           /\ hotspotCalls' = (hotspotCalls \ {c}) \cup
                 (IF expand THEN {loadHotspotsCall(hotspotStarted + 1, 10)} ELSE {})
    /\ filteredHotspots' = applyFilters(data, location, qualityFilter, sortOption, hotspotsLimit)
    /\ UNCHANGED <<error, viewMode, filteredBirds, birdSettings, location, qualityFilter,
                   sortOption, hotspotsLimit, scoringVars, card, birdImages, isLoading,
                   isLoadingImages, isFullyLoaded, refreshing, calls, mounted, renderedDeps,
                   birdImagesReplaced, batching, historyVars>>

\* part_001 lines 98-99 and 104-106: fetchHotspots answers, setHotspots,
\* setIsLoadingHotspots(false), then the effect of lines 88-90
loadHotspotsReceives(c, data) ==
    /\ c \in hotspotCalls
    /\ hotspots' = data
    /\ hotspotsStoredBy' = c.seq
    /\ isLoadingHotspots' = FALSE
    /\ hotspotCalls' = hotspotCalls \ {c}
    /\ filteredHotspots' = applyFilters(data, location, qualityFilter, sortOption, hotspotsLimit)
    /\ UNCHANGED <<hotspotStarted, error, searchRadius, hasAutoExpanded>>
    /\ UNCHANGED <<viewMode, filteredBirds, birdSettings, location, qualityFilter, sortOption,
                   hotspotsLimit, scoringVars, card, birdImages, isLoading, isLoadingImages,
                   isFullyLoaded, refreshing, calls, mounted, renderedDeps,
                   birdImagesReplaced, batching, historyVars>>

\* part_001 lines 100-106: fetchHotspots throws, setError,
\* setIsLoadingHotspots(false)
loadHotspotsFails(c) ==
    /\ c \in hotspotCalls
    /\ error' = TRUE
    /\ isLoadingHotspots' = FALSE
    /\ hotspotCalls' = hotspotCalls \ {c}
    /\ UNCHANGED <<hotspotStarted, hotspotsStoredBy, searchRadius, hasAutoExpanded>>
    /\ UNCHANGED <<rankVars, scoringVars, card, birdImages, isLoading, isLoadingImages,
                   isFullyLoaded, refreshing, calls, mounted, renderedDeps,
                   birdImagesReplaced, batching, historyVars>>

\* RadiusSettings (part_005) handleSelect: setSearchRadius(radius), then
\* HotspotsScreen handleRadiusChange (lines 291-294): loadHotspots() of the
\* render before the change; then, when the radius changed, the effect of
\* lines 81-85 calls the loadHotspots of the new render
handleRadiusChange(radius) ==
    /\ hotspotsFooterVisible
    /\ hotspotStarted + (IF radius = searchRadius THEN 1 ELSE 2) <= MaxHotspotSearches
    /\ searchRadius' = radius
    /\ isLoadingHotspots' = TRUE
    /\ error' = FALSE
    /\ hotspotStarted' = hotspotStarted + (IF radius = searchRadius THEN 1 ELSE 2)
    /\ hotspotCalls' = hotspotCalls
          \cup {loadHotspotsCall(hotspotStarted + 1, searchRadius)}
          \cup (IF radius = searchRadius THEN {}
                ELSE {loadHotspotsCall(hotspotStarted + 2, radius)})
    /\ UNCHANGED <<hotspotsStoredBy, hasAutoExpanded>>
    /\ UNCHANGED <<rankVars, scoringVars, card, birdImages, isLoading, isLoadingImages,
                   isFullyLoaded, refreshing, calls, mounted, renderedDeps,
                   birdImagesReplaced, batching, historyVars>>

\* part_001 line 370: the Retry button of the error view
retryLoadHotspots ==
    /\ ~isLoadingHotspots
    /\ error
    /\ loadHotspotsBegins(searchRadius)
    /\ UNCHANGED <<hotspotsStoredBy, searchRadius, hasAutoExpanded>>
    /\ UNCHANGED <<rankVars, scoringVars, card, birdImages, isLoading, isLoadingImages,
                   isFullyLoaded, refreshing, calls, mounted, renderedDeps,
                   birdImagesReplaced, batching, historyVars>>

\* The screen after its first render and the effects of lines 81-90: the
\* store holds the persisted radius, the birds of the main screen's search
\* and the hotspots of an earlier search,
\* the filters are at their defaults, loadHotspots has begun if the location
\* is known
HotspotsInit ==
    /\ ScoringIdle
    /\ CardIdle
    /\ viewMode = "hotspots"
    /\ filteredBirds = calculateBirdLikelihood(FixedBirdsData)
    /\ sortBy = "likelihood"
    /\ sortDirection = "desc"
    /\ resultsLimit = LimitOf(25)
    /\ hotspots \in HotspotAnswers
    /\ location \in {Origin, NullLocation}
    /\ qualityFilter = QUALITY_LEVELS[1]
    /\ sortOption = qualityHighestSort
    /\ hotspotsLimit = LimitOf(10)
    /\ filteredHotspots = applyFilters(hotspots, location, qualityFilter, sortOption, hotspotsLimit)
    /\ searchRadius \in RADIUS_OPTIONS
    /\ hasAutoExpanded \in BOOLEAN
    /\ birdImages = {}
    /\ isLoading = FALSE
    /\ isLoadingImages = FALSE
    /\ isFullyLoaded = TRUE
    /\ refreshing = FALSE
    /\ error = FALSE
    /\ calls = EmptyBag
    /\ mounted = TRUE
    /\ renderedDeps = [searchRadius |-> searchRadius, hasAutoExpanded |-> hasAutoExpanded]
    /\ birdImagesReplaced = FALSE
    /\ batching = TRUE
    /\ lastChange = "none"
    /\ expansions = 0
    /\ expandedSearches = 0
    /\ imageAnswers = 0
    /\ hotspotsStoredBy = 0
    /\ IF location.null
       THEN isLoadingHotspots = FALSE /\ hotspotCalls = {} /\ hotspotStarted = 0
       ELSE /\ isLoadingHotspots = TRUE
            /\ hotspotCalls = {loadHotspotsCall(1, searchRadius)}
            /\ hotspotStarted = 1

HotspotsNext ==
    \/ \E c \in hotspotCalls, data \in HotspotAnswers : loadHotspotsReceives(c, data)
    \/ \E c \in hotspotCalls : loadHotspotsFails(c)
    \/ \E radius \in RADIUS_OPTIONS : handleRadiusChange(radius)
    \/ retryLoadHotspots
    \/ \E level \in Range(QUALITY_LEVELS) : selectQualityFilter(level)
    \/ \E option \in Range(SORT_OPTIONS) : selectSortOption(option)
    \/ \E limit \in HotspotsLimitOptions : selectHotspotsLimit(limit)
    \/ resetFilters

SpecHotspots == HotspotsInit /\ [][HotspotsNext]_vars

\* C21: a hotspot search that ends, with hotspots, with none or with a
\* failure, leaves the search radius and the expansion flag as they were and
\* starts no further search.
C21_NoExpansionForHotspots ==
    [][(\E c \in hotspotCalls : c \notin hotspotCalls') =>
          /\ searchRadius' = searchRadius
          /\ hasAutoExpanded' = hasAutoExpanded
          /\ hotspotCalls' \subseteq hotspotCalls
          /\ hotspotStarted' = hotspotStarted]_vars

\* The first search ran at 5 miles and found no hotspot; nothing followed
C21_Witness ==
    /\ hotspotsStoredBy = 1
    /\ hotspots = <<>>
    /\ searchRadius = 5
    /\ ~hasAutoExpanded
    /\ hotspotStarted = 1
    /\ hotspotCalls = {}

\* C26: the answer of a search is stored only if no later search has been
\* started: a step in which setHotspots stores the answer of an invocation
\* is a step of the invocation that started last.
C26_SupersededResultDiscarded ==
    [][hotspotsStoredBy' # hotspotsStoredBy => hotspotsStoredBy' = hotspotStarted]_vars

\* C27: once the effects have run, the hotspot list on screen is filter, then
\* sort, then limit of the stored hotspots under the current origin, quality
\* filter, sort option and limit, whatever searches and changes of the
\* settings came before; the bird list on screen is sort, then limit of the
\* stored bird list.
C27_RankedOutputRecomputed ==
    /\ filteredHotspots =
          IF hotspots = <<>> \/ location.null THEN <<>>
          ELSE limitHotspots(
                   sortedHotspots(qualityFiltered(hotspots, qualityFilter), sortOption, location),
                   hotspotsLimit)
    /\ displayedBirds =
          IF filteredBirds = <<>> THEN <<>>
          ELSE limitBirds(sortedBirds(filteredBirds, sortBy, sortDirection), resultsLimit)

\* The third search answered three hotspots after the user had chosen the
\* Moderate filter, nearest first and a limit of one
C27_Witness ==
    /\ hotspotsStoredBy = 3
    /\ Len(hotspots) = 3
    /\ qualityFilter.label = "Moderate"
    /\ sortOption = [value |-> "distance", direction |-> "asc"]
    /\ hotspotsLimit = LimitOf(1)
    /\ Len(filteredHotspots) = 1
    /\ filteredHotspots[1].locId = "L5"

-----------------------------------------------------------------------------
(* MainScreen (src/unnamed/part_003): a batch is scored and stored, and the *)
(* bird list and the hotspot list are ranked under changing settings        *)

\* The batches fetchNearbyBirds answered: none, one record, and records of
\* three species in an order that no sort yields
PipelineBatches == {<<>>, SubSeq(FixedBirdsData, 1, 1), FixedBirdsData}

PipelineInit ==
    /\ birdsData \in PipelineBatches
    /\ scoredBirds = <<>>
    /\ scoringPc = "input"
    /\ viewMode = "birds"
    /\ filteredBirds = <<>>
    /\ sortBy = "likelihood"
    /\ sortDirection = "desc"
    /\ resultsLimit = LimitOf(25)
    /\ hotspots \in HotspotAnswers
    /\ location = Origin
    /\ qualityFilter = QUALITY_LEVELS[1]
    /\ sortOption = qualityHighestSort
    /\ hotspotsLimit = LimitOf(10)
    /\ filteredHotspots = applyFilters(hotspots, location, qualityFilter, sortOption, hotspotsLimit)
    /\ RadiusIdle
    /\ CardIdle
    /\ HotspotSearchIdle

\* part_003 line 133: setBirds(scoredBirds), which the store turns into
\* { birds, filteredBirds: birds } (part_010 line 52)
setBirds ==
    /\ scoringPc = "scored"
    /\ filteredBirds' = scoredBirds
    /\ scoringPc' = "stored"
    /\ UNCHANGED <<birdsData, scoredBirds, viewMode, birdSettings, hotspots, location,
                   hotspotSettings, radiusVars, card, hsearchVars>>

\* part_003 lines 409-410
toggleViewMode ==
    /\ viewMode' = IF viewMode = "birds" THEN "hotspots" ELSE "birds"
    /\ UNCHANGED <<scoringVars, filteredBirds, birdSettings, hotspots, location,
                   hotspotSettings, radiusVars, card, hsearchVars>>

PipelineNext ==
    \/ Score
    \/ setBirds
    \/ toggleViewMode
    \/ RankNext

SpecPipeline == PipelineInit /\ [][PipelineNext]_vars

\* C28: a run of the scorer leaves the raw batch as it was, a run of the bird
\* sort and limit leaves the stored bird list as it was, and a run of the
\* hotspot filter, sort and limit leaves the stored hotspot list as it was:
\* the same elements in the same order.
C28_InputsNotMutated ==
    [][/\ scoringPc' # scoringPc => birdsData' = birdsData
       /\ (scoringPc = "stored" /\ birdSettings' # birdSettings) =>
             (filteredBirds' = filteredBirds /\ birdsData' = birdsData)
       /\ hotspotSettings' # hotspotSettings => hotspots' = hotspots]_vars

\* The batch was scored into another order, the bird list on screen is
\* sorted by name and cut, the hotspot list on screen is filtered and sorted
C28_Witness ==
    /\ scoringPc = "stored"
    /\ birdsData = FixedBirdsData
    /\ filteredBirds[1].speciesCode # birdsData[1].speciesCode
    /\ sortBy = "name"
    /\ Len(displayedBirds) = 1
    /\ displayedBirds[1] # filteredBirds[1]
    /\ Len(hotspots) = 3
    /\ Len(filteredHotspots) = 2
    /\ filteredHotspots[1] # hotspots[1]

-----------------------------------------------------------------------------
(* HotspotsScreen: the quality filter over hotspots whose species counts    *)
(* lie at and next to the thresholds of the filter levels                   *)

TierCounts ==
    {NoSpeciesCount} \cup
    {SpeciesCount(n) : n \in {24, 25, 26, 49, 50, 51, 99, 100, 101, 199, 200, 201}}

\* Lists of at most two hotspots on the meridian of the origin
TierHotspots ==
    {<<>>} \cup
    {<<Hotspot("L1", "Eagle Bluff", 100, Origin.longitude, c)>> : c \in TierCounts} \cup
    {<<Hotspot("L1", "Eagle Bluff", 100, Origin.longitude, c),
       Hotspot("L3", "Cedar Point", 105, Origin.longitude, d)>> : c, d \in TierCounts}

TierInit ==
    /\ ScoringIdle
    /\ RadiusIdle
    /\ CardIdle
    /\ HotspotSearchIdle
    /\ viewMode = "hotspots"
    /\ filteredBirds = <<>>
    /\ sortBy = "likelihood"
    /\ sortDirection = "desc"
    /\ resultsLimit = LimitOf(25)
    /\ hotspots \in TierHotspots
    /\ location = Origin
    /\ qualityFilter = QUALITY_LEVELS[1]
    /\ sortOption = qualityHighestSort
    /\ hotspotsLimit = LimitOf(10)
    /\ filteredHotspots = applyFilters(hotspots, location, qualityFilter, sortOption, hotspotsLimit)

TierNext == \E level \in Range(QUALITY_LEVELS) : selectQualityFilter(level)

SpecTier == TierInit /\ [][TierNext]_vars

\* The position of the tier that carries the name of a filter level
rankNamed(label) ==
    CASE label = "Moderate" -> 1
      [] label = "Good" -> 2
      [] label = "Very Good" -> 3
      [] label = "Excellent" -> 4
      [] OTHER -> 0

\* C30: under each named level of the quality filter, every hotspot on the
\* list is classified by getHotspotQuality at the tier of the level's name
\* or at a better one.
C30_FilterLevelImpliesTier ==
    qualityFilter.label # "All" =>
        \A i \in 1..Len(filteredHotspots) :
            getHotspotQuality(filteredHotspots[i].numSpeciesAllTime).rank
                >= rankNamed(qualityFilter.label)

\* The Good filter lets a hotspot of exactly 50 species pass, and 50 species
\* are Good
C30_Witness ==
    /\ qualityFilter.label = "Good"
    /\ \E i \in 1..Len(filteredHotspots) :
          /\ filteredHotspots[i].numSpeciesAllTime = SpeciesCount(50)
          /\ getHotspotQuality(filteredHotspots[i].numSpeciesAllTime).label = "Good"

=============================================================================
